---- MODULE Spec2Model ----
(***************************************************************************)
(* Model of scan-citrix-netscaler-version.py: the version table loaded at  *)
(* import, parse_version, the advisory predicates, and the timestamp       *)
(* probe.  Text is a sequence of one-character strings; Python's None for  *)
(* a text value is the one-element sequence None.                          *)
(***************************************************************************)
EXTENDS Integers, Sequences, FiniteSets, TLC

(* ------------------------------------------------------------------ *)
(* Text and the built-ins parse_version calls                          *)
(* ------------------------------------------------------------------ *)

None == <<"None">>

UNKNOWN == <<"u", "n", "k", "n", "o", "w", "n">>

DigitChars == {"0", "1", "2", "3", "4", "5", "6", "7", "8", "9"}

DigitVal(c) ==
    CASE c = "0" -> 0 [] c = "1" -> 1 [] c = "2" -> 2 [] c = "3" -> 3
      [] c = "4" -> 4 [] c = "5" -> 5 [] c = "6" -> 6 [] c = "7" -> 7
      [] c = "8" -> 8 [] c = "9" -> 9

\* str.replace(old, new) for one-character old and new
StrReplace(s, old, new) ==
    [i \in 1..Len(s) |-> IF s[i] = old THEN new ELSE s[i]]

\* str.split(sep) for a one-character sep: n separators give n+1 parts
RECURSIVE StrSplit(_, _)
StrSplit(s, sep) ==
    IF \A i \in 1..Len(s) : s[i] # sep
    THEN <<s>>
    ELSE LET k == CHOOSE i \in 1..Len(s) :
                      s[i] = sep /\ \A j \in 1..(i - 1) : s[j] # sep
         IN  <<SubSeq(s, 1, k - 1)>> \o StrSplit(SubSeq(s, k + 1, Len(s)), sep)

\* str.strip() as int() applies it (the only whitespace modelled is " ")
RECURSIVE StrStrip(_)
StrStrip(s) ==
    IF s = <<>> THEN s
    ELSE IF Head(s) = " " THEN StrStrip(Tail(s))
    ELSE IF s[Len(s)] = " " THEN StrStrip(SubSeq(s, 1, Len(s) - 1))
    ELSE s

RECURSIVE DigitsValue(_, _)
DigitsValue(s, acc) ==
    IF s = <<>> THEN acc
    ELSE IF Head(s) = "_" THEN DigitsValue(Tail(s), acc)
    ELSE DigitsValue(Tail(s), 10 * acc + DigitVal(Head(s)))

\* int(str): optional surrounding blanks, optional sign, decimal digits that
\* may be grouped by single underscores; anything else raises ValueError
PyInt(s) ==
    LET t    == StrStrip(s)
        neg  == t # <<>> /\ Head(t) = "-"
        body == IF t # <<>> /\ Head(t) \in {"+", "-"} THEN Tail(t) ELSE t
        good == /\ body # <<>>
                /\ \A i \in 1..Len(body) : body[i] \in DigitChars \cup {"_"}
                /\ body[1] # "_"
                /\ body[Len(body)] # "_"
                /\ \A i \in 1..(Len(body) - 1) : ~(body[i] = "_" /\ body[i + 1] = "_")
    IN  IF good
        THEN [ok |-> TRUE, val |-> IF neg THEN 0 - DigitsValue(body, 0)
                                          ELSE DigitsValue(body, 0)]
        ELSE [ok |-> FALSE, val |-> 0]

(* ------------------------------------------------------------------ *)
(* NetScaler version fingerprints                                      *)
(* ------------------------------------------------------------------ *)

\* one line of the CSV text: the date as its six calendar fields (every row
\* is written with the offset +00:00), the stamp, the hash and the version
Row(date, stamp, vhash, ver) ==
    [rdx_en_date |-> date, rdx_en_stamp |-> stamp, vhash |-> vhash, version |-> ver]

CITRIX_NETSCALER_VERSION_CSV ==
    <<
      Row(<<2018, 8, 25, 3, 29, 12>>, 1535167752, "", <<"1", "2", ".", "1", "-", "4", "9", ".", "2", "3">>),
      Row(<<2018, 10, 16, 17, 54, 20>>, 1539712460, "", <<"1", "2", ".", "1", "-", "4", "9", ".", "3", "7">>),
      Row(<<2018, 11, 28, 8, 56, 26>>, 1543395386, "26df0e65fba681faaeb333058a8b28bf", <<"1", "2", ".", "1", "-", "5", "0", ".", "2", "8">>),
      Row(<<2019, 1, 18, 17, 41, 34>>, 1547833294, "d3b5c691a4cfcc6769da8dc4e40f511d", <<"1", "2", ".", "1", "-", "5", "0", ".", "3", "1">>),
      Row(<<2019, 2, 13, 6, 11, 52>>, 1550038312, "1ffe249eccc42133689c145dc37d6372", <<"u", "n", "k", "n", "o", "w", "n">>),
      Row(<<2019, 2, 27, 9, 30, 2>>, 1551259802, "995a76005c128f4e89474af12ac0de66", <<"1", "2", ".", "1", "-", "5", "1", ".", "1", "6">>),
      Row(<<2019, 3, 25, 22, 37, 8>>, 1553553428, "d2bd166fed66cdf035a0778a09fd688c", <<"1", "2", ".", "1", "-", "5", "1", ".", "1", "9">>),
      Row(<<2019, 4, 19, 11, 4, 22>>, 1555671862, "489cadbd8055b1198c9c7fa9d34921b9", <<"u", "n", "k", "n", "o", "w", "n">>),
      Row(<<2019, 5, 13, 17, 41, 47>>, 1557769307, "86b4b2567b05dff896aae46d6e0765bc", <<"1", "3", ".", "0", "-", "3", "6", ".", "2", "7">>),
      Row(<<2019, 6, 3, 8, 17, 3>>, 1559549823, "73217f4753a74300c0a2ad762c6f1e65", <<"u", "n", "k", "n", "o", "w", "n">>),
      Row(<<2019, 7, 15, 16, 42, 47>>, 1563208967, "dc8897f429a694d44934954b47118908", <<"u", "n", "k", "n", "o", "w", "n">>),
      Row(<<2019, 9, 10, 7, 54, 45>>, 1568102085, "43a8abf580ea09a5fa8aa1bd579280b9", <<"1", "3", ".", "0", "-", "4", "1", ".", "2", "0">>),
      Row(<<2019, 9, 16, 22, 22, 54>>, 1568672574, "0705e646dc7f84d77e8e48561253be12", <<"u", "n", "k", "n", "o", "w", "n">>),
      Row(<<2019, 10, 7, 10, 37, 28>>, 1570444648, "09a78a600b4fc5b9f581347604f70c0e", <<"u", "n", "k", "n", "o", "w", "n">>),
      Row(<<2019, 10, 11, 13, 24, 36>>, 1570800276, "7116ed70ec000da9267a019728ed951e", <<"1", "3", ".", "0", "-", "4", "1", ".", "2", "8">>),
      Row(<<2019, 11, 5, 5, 18, 47>>, 1572931127, "8c62b39f7068ea2f3d3f7d40860c0cd4", <<"1", "2", ".", "1", "-", "5", "5", ".", "1", "3">>),
      Row(<<2019, 11, 28, 19, 6, 22>>, 1574967982, "fedb4ba86b5edcbc86081f2893dc9fdf", <<"1", "3", ".", "0", "-", "4", "7", ".", "2", "2">>),
      Row(<<2020, 1, 16, 13, 36, 4>>, 1579181764, "", <<"1", "1", ".", "1", "-", "6", "3", ".", "1", "5">>),
      Row(<<2020, 1, 20, 12, 46, 27>>, 1579524387, "02d30141fd053d5c3448bf04fbedb8d6", <<"1", "2", ".", "1", "-", "5", "5", ".", "1", "8">>),
      Row(<<2020, 1, 20, 13, 9, 5>>, 1579525745, "fd96bc8977256003de05ed84270b90bb", <<"1", "3", ".", "0", "-", "4", "7", ".", "2", "4">>),
      Row(<<2020, 2, 28, 14, 27, 56>>, 1582900076, "f787f9a8c05a502cd33f363e1e9934aa", <<"1", "2", ".", "1", "-", "5", "5", ".", "2", "4">>),
      Row(<<2020, 3, 18, 17, 41, 16>>, 1584553276, "b5fae8db23061679923e4b2a9b6c7a82", <<"u", "n", "k", "n", "o", "w", "n">>),
      Row(<<2020, 3, 19, 17, 40, 43>>, 1584639643, "e79f3bbf822c1fede6b5a1a4b6035a41", <<"1", "3", ".", "0", "-", "5", "2", ".", "2", "4">>),
      Row(<<2020, 3, 29, 9, 10, 32>>, 1585473032, "f2db014a3eb9790a19dfd71331e7f5d0", <<"1", "2", ".", "1", "-", "5", "6", ".", "2", "2">>),
      Row(<<2020, 6, 1, 6, 48, 41>>, 1590994121, "fdf2235967556bad892fbf29ca69eefd", <<"1", "3", ".", "0", "-", "5", "8", ".", "3", "0">>),
      Row(<<2020, 6, 1, 15, 16, 27>>, 1591024587, "", <<"1", "2", ".", "0", "-", "6", "3", ".", "2", "1">>),
      Row(<<2020, 6, 2, 2, 27, 33>>, 1591064853, "", <<"1", "1", ".", "1", "-", "6", "4", ".", "1", "4">>),
      Row(<<2020, 6, 9, 19, 6, 55>>, 1591729615, "4ecb5abf6e4b1655c07386a2c958597c", <<"1", "2", ".", "1", "-", "5", "7", ".", "1", "8">>),
      Row(<<2020, 7, 2, 16, 38, 13>>, 1593707893, "dcb06155d51a0234e9d127658ef9f21f", <<"1", "3", ".", "0", "-", "5", "8", ".", "3", "2">>),
      Row(<<2020, 7, 22, 19, 49, 27>>, 1595447367, "12c4901ecc3677aad06f678be49cb837", <<"1", "3", ".", "0", "-", "6", "1", ".", "4", "8">>),
      Row(<<2020, 7, 30, 9, 5, 4>>, 1596099904, "bf898768ad1e1d477fa649711c72c6df", <<"1", "3", ".", "0", "-", "6", "1", ".", "4", "8">>),
      Row(<<2020, 8, 14, 14, 54, 4>>, 1597416844, "a1494e2e09cb96e424c6c66512224941", <<"1", "2", ".", "1", "-", "5", "8", ".", "1", "4">>),
      Row(<<2020, 9, 1, 11, 47, 1>>, 1598960821, "b1b38debf0e55c285c72465da3715034", <<"1", "2", ".", "1", "-", "5", "8", ".", "1", "5">>),
      Row(<<2020, 9, 1, 16, 14, 56>>, 1598976896, "06fbfcf525e47b5538f856965154e28c", <<"1", "3", ".", "0", "-", "6", "4", ".", "3", "5">>),
      Row(<<2020, 9, 10, 10, 26, 58>>, 1599733618, "", <<"1", "1", ".", "1", "-", "6", "5", ".", "1", "2">>),
      Row(<<2020, 9, 22, 1, 21, 45>>, 1600737705, "7a0c8874e93395c5e4f1ef3e5e600a25", <<"1", "2", ".", "1", "-", "5", "9", ".", "1", "6">>),
      Row(<<2020, 10, 7, 16, 7, 9>>, 1602086829, "a8e0eb4a1b3e157e0d3a5e57dc46fd35", <<"1", "3", ".", "0", "-", "6", "7", ".", "3", "9">>),
      Row(<<2020, 10, 8, 9, 3, 2>>, 1602147782, "0aef7f8e9ea2b528aa2073f2875a28b8", <<"1", "2", ".", "1", "-", "5", "5", ".", "1", "9", "0">>),
      Row(<<2020, 11, 4, 10, 14, 41>>, 1604484881, "f1eb8548a4f1d4e565248d4db456fffe", <<"1", "2", ".", "1", "-", "6", "0", ".", "1", "6">>),
      Row(<<2020, 11, 13, 12, 56, 30>>, 1605272190, "e2444db11d0fa5ed738aa568c2630704", <<"1", "3", ".", "0", "-", "6", "7", ".", "4", "3">>),
      Row(<<2020, 11, 22, 13, 29, 18>>, 1606051758, "62eba0931b126b1558fea39fb466e588", <<"u", "n", "k", "n", "o", "w", "n">>),
      Row(<<2020, 11, 24, 13, 26, 53>>, 1606224413, "3a65afd164db6f39aa41f5729001d257", <<"1", "3", ".", "0", "-", "6", "7", ".", "4", "3">>),
      Row(<<2020, 12, 3, 5, 13, 26>>, 1606972406, "9b545e2e4d153348bce08e3923cdfdc1", <<"1", "3", ".", "0", "-", "7", "1", ".", "4", "0">>),
      Row(<<2020, 12, 26, 19, 4, 8>>, 1609009448, "25ad60e92a33cbb5dbd7cd8c8380360d", <<"1", "3", ".", "0", "-", "7", "1", ".", "4", "4">>),
      Row(<<2020, 12, 26, 19, 39, 25>>, 1609011565, "0b516b768edfa45775c4be130c4b96b5", <<"1", "2", ".", "1", "-", "6", "0", ".", "1", "9">>),
      Row(<<2021, 1, 4, 3, 7, 45>>, 1609729665, "b3deb35b8a990a71acca052fd1e6e6e1", <<"1", "2", ".", "1", "-", "5", "5", ".", "2", "1", "0">>),
      Row(<<2021, 1, 6, 9, 43, 42>>, 1609926222, "f0cc58ce7ec931656d9fcbfe50d37c4b", <<"u", "n", "k", "n", "o", "w", "n">>),
      Row(<<2021, 2, 2, 13, 36, 6>>, 1612272966, "83e486e7ee7eb07ab88328a51466ac28", <<"1", "2", ".", "1", "-", "6", "1", ".", "1", "8">>),
      Row(<<2021, 2, 18, 18, 37, 49>>, 1613673469, "454d4ccdefa1d802a3f0ca474a2edd73", <<"1", "3", ".", "0", "-", "7", "6", ".", "2", "9">>),
      Row(<<2021, 3, 8, 17, 23, 41>>, 1615224221, "08ff522057b9422863dbabb104c7cf4b", <<"1", "2", ".", "1", "-", "6", "1", ".", "1", "9">>),
      Row(<<2021, 3, 9, 9, 20, 39>>, 1615281639, "648767678188e1567b7d15eee5714220", <<"1", "3", ".", "0", "-", "7", "6", ".", "3", "1">>),
      Row(<<2021, 3, 11, 15, 46, 10>>, 1615477570, "ce5da251414abbb1b6aed6d6141ed205", <<"1", "2", ".", "1", "-", "6", "1", ".", "1", "9">>),
      Row(<<2021, 4, 5, 14, 13, 22>>, 1617632002, "5e55889d93ff0f13c39bbebb4929a68e", <<"1", "3", ".", "0", "-", "7", "9", ".", "6", "4">>),
      Row(<<2021, 5, 10, 14, 38, 2>>, 1620657482, "35389d54edd8a7ef46dadbd00c1bc5ac", <<"1", "2", ".", "1", "-", "6", "2", ".", "2", "1">>),
      Row(<<2021, 5, 12, 11, 36, 11>>, 1620819371, "9f4514cd7d7559fa1fb28960b9a4c22d", <<"u", "n", "k", "n", "o", "w", "n">>),
      Row(<<2021, 5, 17, 15, 56, 11>>, 1621266971, "8e4425455b9da15bdcd9d574af653244", <<"1", "2", ".", "1", "-", "6", "2", ".", "2", "3">>),
      Row(<<2021, 5, 29, 18, 33, 31>>, 1622313211, "", <<"1", "1", ".", "1", "-", "6", "5", ".", "2", "0">>),
      Row(<<2021, 5, 31, 14, 5, 18>>, 1622469918, "73952bdeead9629442cd391d64c74d93", <<"1", "3", ".", "0", "-", "8", "2", ".", "4", "1">>),
      Row(<<2021, 6, 10, 19, 21, 20>>, 1623352880, "25169dea48ef0f939d834468f3c626d2", <<"1", "3", ".", "0", "-", "8", "2", ".", "4", "2">>),
      Row(<<2021, 6, 10, 23, 39, 5>>, 1623368345, "efb9d8994f9656e476e80f9b278c5dae", <<"1", "2", ".", "1", "-", "6", "2", ".", "2", "5">>),
      Row(<<2021, 7, 6, 17, 2, 58>>, 1625590978, "affa5cd9f00480f144eda6334e03ec27", <<"u", "n", "k", "n", "o", "w", "n">>),
      Row(<<2021, 7, 7, 1, 45, 38>>, 1625622338, "e1ebdcea7585d24e9f380a1c52a77f5d", <<"1", "2", ".", "1", "-", "6", "2", ".", "2", "7">>),
      Row(<<2021, 7, 7, 6, 20, 31>>, 1625638831, "", <<"1", "1", ".", "1", "-", "6", "5", ".", "2", "2">>),
      Row(<<2021, 7, 16, 16, 45, 56>>, 1626453956, "eb3f8a7e3fd3f44b70c121101618b80d", <<"1", "3", ".", "0", "-", "8", "2", ".", "4", "5">>),
      Row(<<2021, 9, 10, 7, 31, 30>>, 1631259090, "98a21b87cc25d486eb4189ab52cbc870", <<"1", "3", ".", "1", "-", "4", ".", "4", "3">>),
      Row(<<2021, 9, 27, 14, 1, 20>>, 1632751280, "c9e95a96410b8f8d4bde6fa31278900f", <<"1", "3", ".", "0", "-", "8", "3", ".", "2", "7">>),
      Row(<<2021, 10, 6, 13, 25, 54>>, 1633526754, "394e3fa5ffce140c9dd4bedc38ddefa7", <<"1", "3", ".", "1", "-", "9", ".", "5", "2">>),
      Row(<<2021, 10, 12, 11, 53, 46>>, 1634039626, "435b27d8f59f4b64a6beccb39ce06237", <<"u", "n", "k", "n", "o", "w", "n">>),
      Row(<<2021, 10, 12, 18, 49, 9>>, 1634064549, "", <<"1", "1", ".", "1", "-", "6", "5", ".", "2", "3">>),
      Row(<<2021, 10, 13, 8, 24, 9>>, 1634113449, "f3d4041188d723fec4547b1942ffea93", <<"1", "2", ".", "1", "-", "6", "3", ".", "2", "2">>),
      Row(<<2021, 11, 11, 14, 42, 53>>, 1636641773, "158c7182df4973f1f5346e21e9d97a01", <<"1", "3", ".", "1", "-", "4", ".", "4", "4">>),
      Row(<<2021, 11, 11, 17, 2, 35>>, 1636650155, "a66c02f4d04a1bd32bfdcc1655c73466", <<"1", "3", ".", "0", "-", "8", "3", ".", "2", "9">>),
      Row(<<2021, 11, 11, 20, 6, 47>>, 1636661207, "5cd6bd7d0aec5dd13a1afb603111733a", <<"1", "2", ".", "1", "-", "6", "3", ".", "2", "3">>),
      Row(<<2021, 11, 17, 15, 43, 23>>, 1637163803, "645bded68068748e3314ad3e3ec8eb8f", <<"1", "3", ".", "1", "-", "9", ".", "6", "0">>),
      Row(<<2021, 11, 26, 5, 41, 16>>, 1637905276, "7277ec67fd822b7dae3399aa71786a0a", <<"1", "3", ".", "1", "-", "9", ".", "1", "0", "7">>),
      Row(<<2021, 12, 8, 13, 14, 5>>, 1638969245, "e8ff095e03a3efcff7ed851bfb9141e5", <<"1", "3", ".", "1", "-", "9", ".", "1", "1", "2">>),
      Row(<<2021, 12, 10, 16, 17, 15>>, 1639153035, "5112d5394de0cb5f6d474e032a708907", <<"1", "3", ".", "1", "-", "1", "2", ".", "5", "0">>),
      Row(<<2021, 12, 10, 18, 48, 29>>, 1639162109, "3a316d2de5362e9f76280b3157f48d08", <<"1", "3", ".", "0", "-", "8", "4", ".", "1", "0">>),
      Row(<<2021, 12, 17, 8, 48, 15>>, 1639730895, "bb71c656f6b4e0e1573c77c6536397c3", <<"1", "3", ".", "1", "-", "1", "2", ".", "1", "0", "3">>),
      Row(<<2021, 12, 22, 9, 54, 58>>, 1640166898, "ee44bd3bc047aead57bc000097e3d8aa", <<"1", "2", ".", "1", "-", "6", "3", ".", "2", "4">>),
      Row(<<2021, 12, 22, 10, 57, 32>>, 1640170652, "13693866faf642734f0498eb45f73672", <<"u", "n", "k", "n", "o", "w", "n">>),
      Row(<<2021, 12, 22, 15, 18, 49>>, 1640186329, "2b46554c087d2d5516559e9b8bc1875d", <<"1", "3", ".", "0", "-", "8", "4", ".", "1", "1">>),
      Row(<<2021, 12, 23, 8, 28, 43>>, 1640248123, "cf9d354b261231f6c6121058ba143af7", <<"1", "3", ".", "1", "-", "1", "2", ".", "5", "1">>),
      Row(<<2022, 1, 20, 2, 36, 41>>, 1642646201, "c6bcd2f119d83d1de762c8c09b482546", <<"1", "2", ".", "1", "-", "6", "4", ".", "1", "6">>),
      Row(<<2022, 1, 28, 6, 22, 15>>, 1643350935, "b3fb0319d5d2dad8c977b9986cc26bd8", <<"1", "2", ".", "1", "-", "5", "5", ".", "2", "6", "5">>),
      Row(<<2022, 2, 21, 12, 49, 29>>, 1645447769, "0f3a063431972186f453e07954f34eb8", <<"1", "3", ".", "1", "-", "1", "7", ".", "4", "2">>),
      Row(<<2022, 2, 23, 7, 2, 10>>, 1645599730, "7364f85dc30b3d570015e04f90605854", <<"u", "n", "k", "n", "o", "w", "n">>),
      Row(<<2022, 3, 10, 15, 17, 42>>, 1646925462, "e42d7b3cf4a6938aecebdae491ba140c", <<"1", "3", ".", "0", "-", "8", "5", ".", "1", "5">>),
      Row(<<2022, 3, 25, 20, 49, 2>>, 1648241342, "71ad6c771d99d846195b67c30bfb0433", <<"1", "3", ".", "1", "-", "1", "2", ".", "1", "1", "7">>),
      Row(<<2022, 4, 1, 19, 41, 31>>, 1648842091, "310ffb5a44db3a14ed623394a4049ff9", <<"u", "n", "k", "n", "o", "w", "n">>),
      Row(<<2022, 4, 3, 5, 18, 28>>, 1648963108, "2edf0f445b69b2e322e80dbc3f6f711c", <<"1", "2", ".", "1", "-", "5", "5", ".", "2", "7", "6">>),
      Row(<<2022, 4, 7, 6, 11, 44>>, 1649311904, "b4ac9c8852a04234f38d73d1d8238d37", <<"1", "3", ".", "1", "-", "2", "1", ".", "5", "0">>),
      Row(<<2022, 4, 21, 7, 34, 34>>, 1650526474, "9f73637db0e0f987bf7825486bfb5efe", <<"1", "2", ".", "1", "-", "5", "5", ".", "2", "7", "8">>),
      Row(<<2022, 4, 21, 10, 38, 48>>, 1650537528, "c212a67672ef2da5a74ecd4e18c25835", <<"1", "2", ".", "1", "-", "6", "4", ".", "1", "7">>),
      Row(<<2022, 4, 22, 19, 18, 31>>, 1650655111, "fbdc5fbaed59f858aad0a870ac4a779c", <<"1", "2", ".", "1", "-", "6", "5", ".", "1", "5">>),
      Row(<<2022, 5, 9, 12, 54, 41>>, 1652100881, "e24224ce907593aaadd243831b51dbd7", <<"1", "3", ".", "1", "-", "1", "2", ".", "1", "3", "0">>),
      Row(<<2022, 5, 19, 8, 10, 13>>, 1652947813, "1884e7877a13a991b6d3fac01efbaf79", <<"1", "3", ".", "0", "-", "8", "5", ".", "1", "9">>),
      Row(<<2022, 5, 26, 12, 51, 9>>, 1653569469, "853edb55246c138c530839e638089036", <<"1", "3", ".", "1", "-", "2", "4", ".", "3", "8">>),
      Row(<<2022, 6, 14, 17, 3, 48>>, 1655226228, "7a45138b938a54ab056e0c35cf0ae56c", <<"1", "3", ".", "0", "-", "8", "6", ".", "1", "7">>),
      Row(<<2022, 6, 29, 13, 46, 8>>, 1656510368, "4434db1ec24dd90750ea176f8eab213c", <<"1", "2", ".", "1", "-", "6", "5", ".", "1", "7">>),
      Row(<<2022, 7, 6, 8, 54, 42>>, 1657097682, "469591a5ef8c69899320a319d5259922", <<"1", "2", ".", "1", "-", "5", "5", ".", "2", "8", "2">>),
      Row(<<2022, 7, 6, 10, 41, 43>>, 1657104103, "adc1f7c850ca3016b21776467691a767", <<"1", "3", ".", "1", "-", "2", "7", ".", "5", "9">>),
      Row(<<2022, 7, 12, 19, 52, 59>>, 1657655579, "8f1767a6961f7b797d318d884dbb3a9c", <<"1", "3", ".", "1", "-", "1", "2", ".", "1", "3", "1">>),
      Row(<<2022, 7, 29, 17, 39, 52>>, 1659116392, "1f63988aa4d3f6d835704be50c56788a", <<"1", "3", ".", "0", "-", "8", "7", ".", "9">>),
      Row(<<2022, 8, 24, 14, 57, 1>>, 1661353021, "57d9f58db7576d6a194d7dd10888e354", <<"1", "3", ".", "1", "-", "3", "0", ".", "5", "2">>),
      Row(<<2022, 9, 5, 9, 57, 52>>, 1662371872, "8c6bef3b4f16d6c9bfc2913aae2535d1", <<"1", "3", ".", "1", "-", "3", "0", ".", "1", "0", "3">>),
      Row(<<2022, 9, 7, 12, 17, 13>>, 1662553033, "f214d9aa6ff8f43fdb17ce81caac723f", <<"1", "3", ".", "1", "-", "3", "0", ".", "1", "0", "5">>),
      Row(<<2022, 9, 23, 18, 53, 35>>, 1663959215, "7afe87a42140b566a2115d1e232fdc07", <<"1", "3", ".", "1", "-", "3", "3", ".", "4", "7">>),
      Row(<<2022, 9, 27, 12, 31, 22>>, 1664281882, "8cbccac1a96eee108ae3c85bf9ff845a", <<"1", "3", ".", "1", "-", "3", "0", ".", "1", "0", "8">>),
      Row(<<2022, 9, 30, 4, 47, 1>>, 1664513221, "212fa0e7b3a5ca540f156caceba507fe", <<"1", "3", ".", "1", "-", "3", "0", ".", "1", "0", "9">>),
      Row(<<2022, 10, 4, 12, 3, 35>>, 1664885015, "29adf2b509250b780bac083577c92b45", <<"1", "3", ".", "1", "-", "3", "0", ".", "1", "1", "1">>),
      Row(<<2022, 10, 4, 16, 11, 3>>, 1664899863, "c1b64cea1b80e973580a73b787828daf", <<"1", "2", ".", "1", "-", "6", "5", ".", "2", "1">>),
      Row(<<2022, 10, 12, 7, 25, 44>>, 1665559544, "4d817946cef53571bc303373fd6b406b", <<"1", "2", ".", "1", "-", "5", "5", ".", "2", "8", "9">>),
      Row(<<2022, 10, 12, 17, 1, 28>>, 1665594088, "aff0ad8c8a961d7b838109a7ee532bcb", <<"1", "3", ".", "1", "-", "3", "3", ".", "4", "9">>),
      Row(<<2022, 10, 14, 17, 10, 45>>, 1665767445, "37c10ac513599cf39997d52168432c0e", <<"1", "3", ".", "0", "-", "8", "8", ".", "1", "2">>),
      Row(<<2022, 10, 31, 15, 54, 59>>, 1667231699, "27292ddd74e24a311e4269de9ecaa6e7", <<"1", "3", ".", "0", "-", "8", "8", ".", "1", "3">>),
      Row(<<2022, 10, 31, 16, 31, 43>>, 1667233903, "5e939302a9d7db7e35e63a39af1c7bec", <<"1", "3", ".", "1", "-", "3", "3", ".", "5", "1">>),
      Row(<<2022, 11, 3, 5, 22, 5>>, 1667452925, "6e7b2de88609868eeda0b1baf1d34a7e", <<"1", "3", ".", "0", "-", "8", "8", ".", "1", "4">>),
      Row(<<2022, 11, 3, 5, 38, 29>>, 1667453909, "56672635f81a1ce1f34f828fef41d2fa", <<"1", "3", ".", "1", "-", "3", "3", ".", "5", "2">>),
      Row(<<2022, 11, 11, 4, 16, 21>>, 1668140181, "8ecc8331379bc60f49712c9b25f276ea", <<"u", "n", "k", "n", "o", "w", "n">>),
      Row(<<2022, 11, 11, 6, 0, 31>>, 1668146431, "86c7421a034063574799dcd841ee88f0", <<"u", "n", "k", "n", "o", "w", "n">>),
      Row(<<2022, 11, 17, 9, 55, 40>>, 1668678940, "9bf6d5d3131495969deba0f850447947", <<"1", "3", ".", "1", "-", "3", "3", ".", "5", "4">>),
      Row(<<2022, 11, 17, 10, 37, 18>>, 1668681438, "3bd7940b6425d9d4dba7e8b656d4ba65", <<"1", "3", ".", "0", "-", "8", "8", ".", "1", "6">>),
      Row(<<2022, 11, 23, 11, 42, 31>>, 1669203751, "0d656200c32bb47c300b81e599260c42", <<"1", "3", ".", "1", "-", "3", "7", ".", "3", "8">>),
      Row(<<2022, 11, 28, 11, 55, 5>>, 1669636505, "953fae977d4baedf39e83c9d1e134ef1", <<"1", "2", ".", "1", "-", "5", "5", ".", "2", "9", "1">>),
      Row(<<2022, 11, 30, 11, 42, 25>>, 1669808545, "f063b04477adc652c6dd502ac0c39a75", <<"1", "2", ".", "1", "-", "6", "5", ".", "2", "5">>),
      Row(<<2022, 12, 1, 10, 48, 25>>, 1669891705, "c0c00b7caed367b1569574e4982294c5", <<"1", "3", ".", "1", "-", "3", "0", ".", "1", "1", "4">>),
      Row(<<2022, 12, 14, 15, 54, 39>>, 1671033279, "14c6a775edda324764a940cfd3da48cb", <<"1", "3", ".", "0", "-", "8", "9", ".", "7">>),
      Row(<<2023, 1, 24, 17, 44, 35>>, 1674582275, "c2b8537eb733844f1e0cc4f63210d016", <<"1", "3", ".", "0", "-", "9", "0", ".", "7">>),
      Row(<<2023, 2, 22, 13, 31, 29>>, 1677072689, "b4c220db03ea18bc2eebb40e9ad3f4f8", <<"1", "3", ".", "1", "-", "4", "2", ".", "4", "7">>),
      Row(<<2023, 4, 5, 6, 57, 33>>, 1680677853, "0b2a3cb74b5c6adbe28827e8b76a9f64", <<"1", "2", ".", "1", "-", "5", "5", ".", "2", "9", "6">>),
      Row(<<2023, 4, 12, 8, 5, 14>>, 1681286714, "6925fba74320b9bfb960299f7c3e7cce", <<"1", "3", ".", "1", "-", "4", "5", ".", "6", "1">>),
      Row(<<2023, 4, 17, 18, 9, 24>>, 1681754964, "cdb72bd7677da8af9942897256782c9b", <<"1", "3", ".", "1", "-", "3", "7", ".", "1", "5", "0">>),
      Row(<<2023, 4, 19, 15, 34, 38>>, 1681918478, "281b46a105662de06fb259293aa79f2a", <<"1", "3", ".", "0", "-", "9", "0", ".", "1", "1">>),
      Row(<<2023, 4, 26, 11, 42, 55>>, 1682509375, "1487b55f253ea54b1d3603cc1212f164", <<"1", "3", ".", "1", "-", "4", "5", ".", "6", "2">>),
      Row(<<2023, 4, 28, 20, 39, 0>>, 1682714340, "a6a783263968040a97e44d7cac55eda6", <<"1", "2", ".", "1", "-", "6", "5", ".", "3", "5">>),
      Row(<<2023, 4, 30, 8, 54, 31>>, 1682844871, "d72c9f2af7ccded704862da7486cfef2", <<"1", "3", ".", "1", "-", "4", "5", ".", "6", "3">>),
      Row(<<2023, 5, 12, 4, 49, 56>>, 1683866996, "", <<"1", "3", ".", "0", "-", "9", "1", ".", "1", "2">>),
      Row(<<2023, 5, 12, 7, 33, 58>>, 1683876838, "14195083e08df261613408eb5cf3b212", <<"1", "3", ".", "1", "-", "4", "5", ".", "6", "4">>),
      Row(<<2023, 5, 15, 10, 23, 44>>, 1684146224, "4d63b52cc99fe712f9be5e4795c854e9", <<"1", "3", ".", "0", "-", "9", "0", ".", "1", "2">>),
      Row(<<2023, 6, 3, 7, 35, 50>>, 1685777750, "", <<"1", "3", ".", "1", "-", "4", "8", ".", "4", "7">>),
      Row(<<2023, 7, 7, 15, 32, 56>>, 1688743976, "", <<"1", "3", ".", "0", "-", "9", "1", ".", "1", "3">>),
      Row(<<2023, 7, 7, 16, 15, 10>>, 1688746510, "e72b4f05a103118667208783b57eee3b", <<"u", "n", "k", "n", "o", "w", "n">>),
      Row(<<2023, 7, 7, 16, 17, 7>>, 1688746627, "46d83b1a2981c1cfefe8d3063adf78f4", <<"1", "3", ".", "1", "-", "3", "7", ".", "1", "5", "9">>),
      Row(<<2023, 7, 7, 16, 29, 27>>, 1688747367, "28e592a607e8919cc6ca7dec63590e04", <<"1", "2", ".", "1", "-", "5", "5", ".", "2", "9", "7">>),
      Row(<<2023, 7, 10, 1, 57, 59>>, 1688954279, "", <<"1", "3", ".", "1", "-", "4", "9", ".", "1", "0", "1">>),
      Row(<<2023, 7, 10, 18, 36, 31>>, 1689014191, "", <<"1", "3", ".", "1", "-", "4", "9", ".", "1", "3">>),
      Row(<<2023, 7, 11, 7, 14, 37>>, 1689059677, "", <<"1", "3", ".", "1", "-", "4", "9", ".", "1", "0", "2">>),
      Row(<<2023, 7, 20, 4, 36, 25>>, 1689827785, "", <<"1", "3", ".", "1", "-", "4", "9", ".", "1", "0", "6">>),
      Row(<<2023, 7, 28, 0, 25, 1>>, 1690503901, "", <<"1", "4", ".", "1", "-", "4", ".", "4", "2">>),
      Row(<<2023, 8, 30, 7, 3, 54>>, 1693379034, "", <<"1", "3", ".", "0", "-", "9", "2", ".", "1", "8">>),
      Row(<<2023, 9, 15, 6, 40, 36>>, 1694760036, "", <<"1", "4", ".", "1", "-", "8", ".", "5", "0">>),
      Row(<<2023, 9, 21, 5, 25, 24>>, 1695273924, "", <<"1", "3", ".", "0", "-", "9", "2", ".", "1", "9">>),
      Row(<<2023, 9, 21, 6, 17, 1>>, 1695277021, "", <<"1", "3", ".", "1", "-", "4", "9", ".", "1", "5">>),
      Row(<<2023, 9, 21, 8, 15, 2>>, 1695284102, "e1aa8ba6d7e558d43f0369d9b81cbb1c", <<"1", "2", ".", "1", "-", "6", "5", ".", "3", "7">>),
      Row(<<2023, 9, 21, 17, 12, 48>>, 1695316368, "155a75fb7efac3347e7362fd23083aa5", <<"1", "2", ".", "1", "-", "5", "5", ".", "3", "0", "0">>),
      Row(<<2023, 9, 27, 12, 27, 52>>, 1695817672, "", <<"1", "3", ".", "1", "-", "3", "7", ".", "1", "6", "4">>),
      Row(<<2023, 10, 18, 7, 27, 4>>, 1697614024, "", <<"1", "3", ".", "1", "-", "5", "0", ".", "2", "3">>),
      Row(<<2023, 11, 22, 18, 19, 39>>, 1700677179, "", <<"1", "4", ".", "1", "-", "1", "2", ".", "3", "0">>),
      Row(<<2023, 12, 6, 18, 15, 43>>, 1701886543, "", <<"1", "4", ".", "1", "-", "8", ".", "1", "2", "0">>),
      Row(<<2023, 12, 8, 11, 31, 8>>, 1702035068, "", <<"1", "4", ".", "1", "-", "1", "2", ".", "3", "4">>),
      Row(<<2023, 12, 8, 19, 10, 40>>, 1702062640, "", <<"1", "3", ".", "1", "-", "5", "1", ".", "1", "4">>),
      Row(<<2023, 12, 14, 10, 12, 36>>, 1702548756, "", <<"1", "3", ".", "0", "-", "9", "2", ".", "2", "1">>),
      Row(<<2023, 12, 15, 7, 26, 58>>, 1702625218, "", <<"1", "3", ".", "1", "-", "5", "1", ".", "1", "5">>),
      Row(<<2023, 12, 15, 9, 18, 34>>, 1702631914, "", <<"1", "4", ".", "1", "-", "1", "2", ".", "3", "5">>),
      Row(<<2023, 12, 18, 7, 59, 52>>, 1702886392, "f6beac6ccd073f5f7c1a64c4c7e24c7e", <<"1", "2", ".", "1", "-", "5", "5", ".", "3", "0", "2">>),
      Row(<<2023, 12, 18, 14, 16, 4>>, 1702908964, "9debca402a9fae56a0d5e0979f685cf2", <<"1", "2", ".", "1", "-", "6", "5", ".", "3", "9">>),
      Row(<<2024, 1, 2, 11, 24, 56>>, 1704194696, "", <<"1", "4", ".", "1", "-", "8", ".", "1", "2", "2">>),
      Row(<<2024, 1, 5, 4, 15, 53>>, 1704428153, "", <<"1", "3", ".", "1", "-", "3", "7", ".", "1", "7", "6">>),
      Row(<<2024, 2, 8, 5, 34, 51>>, 1707370491, "", <<"1", "4", ".", "1", "-", "1", "7", ".", "3", "8">>),
      Row(<<2024, 2, 29, 17, 31, 8>>, 1709227868, "", <<"1", "3", ".", "1", "-", "5", "2", ".", "1", "9">>),
      Row(<<2024, 4, 18, 21, 13, 30>>, 1713474810, "", <<"1", "4", ".", "1", "-", "2", "1", ".", "5", "7">>),
      Row(<<2024, 4, 26, 11, 56, 34>>, 1714132594, "08604a97f08f6973502adb8ebf78e0b0", <<"1", "2", ".", "1", "-", "5", "5", ".", "3", "0", "4">>),
      Row(<<2024, 5, 1, 5, 48, 44>>, 1714542524, "fe1071e2b14a5b5016d3eb57ddcfc86d", <<"1", "2", ".", "1", "-", "5", "5", ".", "3", "0", "4">>),
      Row(<<2024, 5, 13, 16, 45, 28>>, 1715618728, "", <<"1", "3", ".", "1", "-", "5", "3", ".", "1", "7">>),
      Row(<<2024, 5, 14, 12, 55, 51>>, 1715691351, "", <<"1", "3", ".", "1", "-", "3", "7", ".", "1", "8", "3">>),
      Row(<<2024, 6, 8, 7, 28, 50>>, 1717831730, "", <<"1", "4", ".", "1", "-", "2", "5", ".", "5", "3">>),
      Row(<<2024, 6, 24, 12, 44, 20>>, 1719233060, "", <<"1", "4", ".", "1", "-", "2", "5", ".", "1", "0", "7">>),
      Row(<<2024, 7, 4, 10, 41, 15>>, 1720089675, "", <<"1", "3", ".", "0", "-", "9", "2", ".", "3", "1">>),
      Row(<<2024, 7, 4, 14, 32, 40>>, 1720103560, "", <<"1", "3", ".", "1", "-", "5", "3", ".", "2", "4">>),
      Row(<<2024, 7, 4, 16, 31, 28>>, 1720110688, "", <<"1", "4", ".", "1", "-", "2", "5", ".", "5", "6">>),
      Row(<<2024, 7, 4, 16, 49, 33>>, 1720111773, "", <<"1", "3", ".", "1", "-", "3", "7", ".", "1", "9", "0">>),
      Row(<<2024, 7, 5, 6, 7, 38>>, 1720159658, "", <<"1", "4", ".", "1", "-", "2", "5", ".", "1", "0", "8">>),
      Row(<<2024, 7, 8, 18, 53, 11>>, 1720464791, "", <<"1", "3", ".", "0", "-", "9", "2", ".", "3", "1">>),
      Row(<<2024, 7, 17, 17, 53, 35>>, 1721238815, "", <<"1", "3", ".", "1", "-", "5", "4", ".", "2", "9">>),
      Row(<<2024, 8, 13, 11, 43, 40>>, 1723549420, "", <<"1", "3", ".", "1", "-", "3", "7", ".", "1", "9", "9">>),
      Row(<<2024, 10, 7, 20, 11, 28>>, 1728331888, "", <<"1", "3", ".", "1", "-", "3", "7", ".", "2", "0", "7">>),
      Row(<<2024, 10, 7, 20, 55, 33>>, 1728334533, "a7c411815373059b33b4d83bed6145a2", <<"1", "2", ".", "1", "-", "5", "5", ".", "3", "2", "1">>),
      Row(<<2024, 10, 11, 10, 23, 4>>, 1728642184, "", <<"1", "4", ".", "1", "-", "2", "9", ".", "7", "2">>),
      Row(<<2024, 10, 21, 20, 52, 15>>, 1729543935, "0dd3f401dd33679f07e06961db10a298", <<"1", "2", ".", "1", "-", "5", "5", ".", "3", "2", "1">>),
      Row(<<2024, 10, 22, 1, 37, 14>>, 1729561034, "", <<"1", "4", ".", "1", "-", "3", "4", ".", "4", "2">>),
      Row(<<2024, 10, 24, 13, 43, 49>>, 1729777429, "", <<"1", "3", ".", "1", "-", "5", "5", ".", "3", "4">>),
      Row(<<2024, 10, 29, 6, 55, 25>>, 1730184925, "", <<"1", "4", ".", "1", "-", "3", "4", ".", "1", "0", "1">>),
      Row(<<2024, 11, 7, 16, 17, 10>>, 1730996230, "", <<"1", "3", ".", "1", "-", "5", "6", ".", "1", "8">>),
      Row(<<2024, 11, 29, 10, 21, 3>>, 1732875663, "", <<"1", "3", ".", "1", "-", "3", "7", ".", "2", "1", "9">>),
      Row(<<2024, 12, 16, 17, 20, 8>>, 1734369608, "", <<"1", "4", ".", "1", "-", "3", "8", ".", "5", "3">>),
      Row(<<2025, 1, 25, 10, 12, 49>>, 1737799969, "", <<"1", "3", ".", "1", "-", "5", "7", ".", "2", "6">>),
      Row(<<2025, 2, 11, 1, 19, 25>>, 1739236765, "c624dcce8d3355d555021d2aac5f9715", <<"1", "2", ".", "1", "-", "5", "5", ".", "3", "2", "5">>),
      Row(<<2025, 2, 21, 16, 41, 24>>, 1740156084, "", <<"1", "4", ".", "1", "-", "4", "3", ".", "5", "0">>),
      Row(<<2025, 3, 6, 13, 19, 10>>, 1741267150, "", <<"1", "4", ".", "1", "-", "3", "4", ".", "1", "0", "5">>),
      Row(<<2025, 3, 14, 9, 32, 59>>, 1741944779, "", <<"1", "4", ".", "1", "-", "3", "4", ".", "1", "0", "7">>),
      Row(<<2025, 4, 1, 8, 43, 29>>, 1743497009, "", <<"1", "3", ".", "1", "-", "3", "7", ".", "2", "3", "2">>),
      Row(<<2025, 4, 8, 14, 8, 19>>, 1744121299, "", <<"1", "3", ".", "1", "-", "5", "8", ".", "2", "1">>),
      Row(<<2025, 4, 9, 7, 52, 44>>, 1744185164, "", <<"1", "4", ".", "1", "-", "4", "3", ".", "1", "0", "9">>),
      Row(<<2025, 5, 13, 17, 58, 16>>, 1747159096, "", <<"1", "4", ".", "1", "-", "4", "7", ".", "4", "0">>),
      Row(<<2025, 5, 20, 7, 48, 42>>, 1747727322, "", <<"1", "4", ".", "1", "-", "4", "7", ".", "4", "3">>),
      Row(<<2025, 5, 21, 8, 5, 34>>, 1747814734, "", <<"1", "4", ".", "1", "-", "4", "7", ".", "4", "4">>),
      Row(<<2025, 6, 7, 13, 53, 15>>, 1749304395, "", <<"1", "4", ".", "1", "-", "4", "7", ".", "4", "6">>),
      Row(<<2025, 6, 10, 10, 53, 47>>, 1749552827, "", <<"1", "4", ".", "1", "-", "4", "3", ".", "5", "6">>),
      Row(<<2025, 6, 10, 14, 2, 25>>, 1749564145, "89929af92ff35a042d78e9010b7ec534", <<"1", "2", ".", "1", "-", "5", "5", ".", "3", "2", "8">>),
      Row(<<2025, 6, 10, 16, 26, 42>>, 1749572802, "", <<"1", "3", ".", "1", "-", "3", "7", ".", "2", "3", "5">>),
      Row(<<2025, 6, 10, 20, 52, 27>>, 1749588747, "", <<"1", "3", ".", "1", "-", "5", "8", ".", "3", "2">>),
      Row(<<2025, 6, 17, 4, 21, 23>>, 1750134083, "f069136a9297a52b6d86a5de987d9323", <<"1", "2", ".", "1", "-", "5", "5", ".", "3", "2", "8">>),
      Row(<<2025, 6, 18, 13, 4, 11>>, 1750251851, "", <<"1", "3", ".", "1", "-", "5", "9", ".", "1", "9">>),
      Row(<<2025, 8, 20, 12, 21, 5>>, 1755692465, "765c645f7af4a1ef5c11d464fafc6244", <<"1", "2", ".", "1", "-", "5", "5", ".", "3", "3", "0">>),
      Row(<<2025, 8, 20, 12, 23, 35>>, 1755692615, "", <<"1", "4", ".", "1", "-", "4", "7", ".", "4", "8">>),
      Row(<<2025, 8, 20, 12, 35, 34>>, 1755693334, "", <<"1", "3", ".", "1", "-", "3", "7", ".", "2", "4", "1">>),
      Row(<<2025, 8, 20, 12, 44, 46>>, 1755693886, "", <<"1", "3", ".", "1", "-", "5", "9", ".", "2", "2">>),
      Row(<<2025, 8, 26, 2, 22, 30>>, 1756174950, "a53b1af56a97019171ec39665fedc54a", <<"1", "2", ".", "1", "-", "5", "5", ".", "3", "3", "0">>)
    >>

\* days from 1970-01-01 to the civil date y-m-d
DaysFromCivil(y, m, d) ==
    LET yy  == IF m <= 2 THEN y - 1 ELSE y
        era == yy \div 400
        yoe == yy - era * 400
        mp  == IF m > 2 THEN m - 3 ELSE m + 9
        doy == (153 * mp + 2) \div 5 + d - 1
        doe == yoe * 365 + yoe \div 4 - yoe \div 100 + doy
    IN  era * 146097 + doe - 719468

\* int(datetime.fromisoformat(text).timestamp()) of a date written in UTC
DateTimestamp(date) ==
    DaysFromCivil(date[1], date[2], date[3]) * 86400
        + date[4] * 3600 + date[5] * 60 + date[6]

\* A dict is the sequence of its <<key, value>> items in insertion order.
\* d[k] = v: a present key keeps its position, a new key goes last
DictSet(d, k, v) ==
    IF \E i \in 1..Len(d) : d[i][1] = k
    THEN [i \in 1..Len(d) |-> IF d[i][1] = k THEN <<k, v>> ELSE d[i]]
    ELSE Append(d, <<k, v>>)

\* list(d.keys())
DictKeys(d) == [i \in 1..Len(d) |-> d[i][1]]

\* d.get(k, default)
DictGet(d, k, default) ==
    IF \E i \in 1..Len(d) : d[i][1] = k
    THEN d[CHOOSE i \in 1..Len(d) : d[i][1] = k][2]
    ELSE default

\* sorted(list) of integers: every element at the place of its rank, equal
\* elements in their order in list
Sorted(list) ==
    LET len  == Len(list)
        rank == [i \in 1..len |->
                    Cardinality({j \in 1..len : list[j] < list[i]})
                    + Cardinality({j \in 1..i : list[j] = list[i]})]
    IN  [k \in 1..len |-> list[CHOOSE i \in 1..len : rank[i] = k]]

Loading(vh, vs) ==
    [ok |-> TRUE, exc |-> "", vhash_to_version |-> vh, vstamp_to_version |-> vs]

LoadFailed(why) ==
    [ok |-> FALSE, exc |-> why, vhash_to_version |-> <<>>, vstamp_to_version |-> <<>>]

\* the body of the loop for one row
LoadRow(acc, row) ==
    IF row.version = <<>>
    THEN LoadFailed("AssertionError: version not defined")
    ELSE IF DateTimestamp(row.rdx_en_date) # row.rdx_en_stamp
    THEN LoadFailed("AssertionError: date and stamp differ")
    ELSE Loading(IF row.vhash # ""
                 THEN DictSet(acc.vhash_to_version, row.vhash, row.version)
                 ELSE acc.vhash_to_version,
                 DictSet(acc.vstamp_to_version, row.rdx_en_stamp, row.version))

\* the loop over rows lo..hi in order, from the dictionaries in acc; a failed
\* assertion ends it
RECURSIVE LoadRows(_, _, _, _)
LoadRows(rows, lo, hi, acc) ==
    IF lo > hi THEN acc
    ELSE IF lo = hi THEN LoadRow(acc, rows[lo])
    ELSE LET mid   == (lo + hi) \div 2
             first == LoadRows(rows, lo, mid, acc)
         IN  IF first.ok THEN LoadRows(rows, mid + 1, hi, first) ELSE first

\* the assertion on the keys after the loop
KeysSorted(acc) ==
    IF ~acc.ok THEN acc
    ELSE IF DictKeys(acc.vstamp_to_version) = Sorted(DictKeys(acc.vstamp_to_version))
    THEN acc
    ELSE LoadFailed("AssertionError: not sorted")

load_version_hashes(rows) ==
    KeysSorted(LoadRows(rows, 1, Len(rows), Loading(<<>>, <<>>)))

(* ------------------------------------------------------------------ *)
(* Vulnerability check functions                                       *)
(* ------------------------------------------------------------------ *)

VersionTuple(major, minor, build, patch) ==
    [major |-> major, minor |-> minor, build |-> build, patch |-> patch]

\* tuple.__lt__: lexicographic order, first differing field decides
RECURSIVE SeqLess(_, _)
SeqLess(a, b) ==
    IF a = <<>> THEN b # <<>>
    ELSE IF b = <<>> THEN FALSE
    ELSE IF Head(a) # Head(b) THEN Head(a) < Head(b)
    ELSE SeqLess(Tail(a), Tail(b))

TupleLess(v, w) ==
    SeqLess(<<v.major, v.minor, v.build, v.patch>>,
            <<w.major, w.minor, w.build, w.patch>>)

Raised(exc) == [ok |-> FALSE, exc |-> exc, val |-> VersionTuple(0, 0, 0, 0)]

Returned(v) == [ok |-> TRUE, exc |-> "", val |-> v]

\* the unpacking written as a slice of the first four parts: extra parts ignored
Unpack4_first_four(parts) ==
    IF Len(parts) < 4 \/ \E i \in 1..4 : ~PyInt(parts[i]).ok THEN Raised("ValueError")
    ELSE Returned(VersionTuple(PyInt(parts[1]).val, PyInt(parts[2]).val,
                               PyInt(parts[3]).val, PyInt(parts[4]).val))

\* The unpacking  major, minor, build, patch = map(int, parts): int is applied
\* lazily to the first five parts at most; a part int rejects, fewer than four
\* parts and more than four parts all raise ValueError.
Unpack4(parts) ==
    LET n == IF Len(parts) < 5 THEN Len(parts) ELSE 5
    IN  IF \E i \in 1..n : ~PyInt(parts[i]).ok THEN Raised("ValueError")
        ELSE IF Len(parts) # 4 THEN Raised("ValueError")
        ELSE Returned(VersionTuple(PyInt(parts[1]).val, PyInt(parts[2]).val,
                                   PyInt(parts[3]).val, PyInt(parts[4]).val))

\* parse_version without the replacement of "." by "-"
parse_version_no_replace(version) ==
    IF version # None /\ version # <<>> /\ version # UNKNOWN
    THEN Unpack4(StrSplit(version, "-"))
    ELSE Raised("ValueError")

parse_version(version) ==
    IF version # None /\ version # <<>> /\ version # UNKNOWN
    THEN Unpack4(StrSplit(StrReplace(version, ".", "-"), "-"))
    ELSE Raised("ValueError")

is_fips_13_1(vtuple) ==
    <<vtuple.major, vtuple.minor, vtuple.build>> = <<13, 1, 37>>

is_fips_12_1(vtuple) ==
    <<vtuple.major, vtuple.minor, vtuple.build>> = <<12, 1, 55>>

\* is_eol without the exemption of the FIPS builds
is_eol_no_fips_exemption(vtuple) ==
    IF vtuple.major = 13 /\ vtuple.minor = 0 THEN TRUE
    ELSE IF vtuple.major <= 12 THEN TRUE
    ELSE FALSE

is_eol(vtuple) ==
    IF is_fips_13_1(vtuple) \/ is_fips_12_1(vtuple) THEN FALSE
    ELSE IF vtuple.major = 13 /\ vtuple.minor = 0 THEN TRUE
    ELSE IF vtuple.major <= 12 THEN TRUE
    ELSE FALSE

\* is_vuln_ctx693420 comparing with <= in the 13.1-FIPS branch
is_vuln_ctx693420_inclusive(vtuple) ==
    IF is_fips_13_1(vtuple) THEN ~TupleLess(VersionTuple(13, 1, 37, 235), vtuple)
    ELSE IF is_fips_12_1(vtuple) THEN TupleLess(vtuple, VersionTuple(12, 1, 55, 328))
    ELSE IF vtuple.major = 14 THEN TupleLess(vtuple, VersionTuple(14, 1, 43, 56))
    ELSE IF vtuple.major = 13 THEN TupleLess(vtuple, VersionTuple(13, 1, 58, 32))
    ELSE is_eol(vtuple)

is_vuln_ctx693420(vtuple) ==
    IF is_fips_13_1(vtuple) THEN TupleLess(vtuple, VersionTuple(13, 1, 37, 235))
    ELSE IF is_fips_12_1(vtuple) THEN TupleLess(vtuple, VersionTuple(12, 1, 55, 328))
    ELSE IF vtuple.major = 14 THEN TupleLess(vtuple, VersionTuple(14, 1, 43, 56))
    ELSE IF vtuple.major = 13 THEN TupleLess(vtuple, VersionTuple(13, 1, 58, 32))
    ELSE is_eol(vtuple)

\* is_vuln_ctx694788 with the 12.1-FIPS branch of is_vuln_ctx693420 copied in
is_vuln_ctx694788_fips12_copied(vtuple) ==
    IF is_fips_13_1(vtuple) THEN TupleLess(vtuple, VersionTuple(13, 1, 37, 236))
    ELSE IF is_fips_12_1(vtuple) THEN TupleLess(vtuple, VersionTuple(12, 1, 55, 328))
    ELSE IF vtuple.major = 14 THEN TupleLess(vtuple, VersionTuple(14, 1, 47, 46))
    ELSE IF vtuple.major = 13 THEN TupleLess(vtuple, VersionTuple(13, 1, 59, 19))
    ELSE is_eol(vtuple)

\* is_vuln_ctx694788 with the 14.x threshold of the later advisory
is_vuln_ctx694788_wrong_threshold(vtuple) ==
    IF is_fips_13_1(vtuple) THEN TupleLess(vtuple, VersionTuple(13, 1, 37, 236))
    ELSE IF is_fips_12_1(vtuple) THEN FALSE
    ELSE IF vtuple.major = 14 THEN TupleLess(vtuple, VersionTuple(14, 1, 47, 48))
    ELSE IF vtuple.major = 13 THEN TupleLess(vtuple, VersionTuple(13, 1, 59, 19))
    ELSE is_eol(vtuple)

is_vuln_ctx694788(vtuple) ==
    IF is_fips_13_1(vtuple) THEN TupleLess(vtuple, VersionTuple(13, 1, 37, 236))
    ELSE IF is_fips_12_1(vtuple) THEN FALSE
    ELSE IF vtuple.major = 14 THEN TupleLess(vtuple, VersionTuple(14, 1, 47, 46))
    ELSE IF vtuple.major = 13 THEN TupleLess(vtuple, VersionTuple(13, 1, 59, 19))
    ELSE is_eol(vtuple)

\* is_vuln_ctx694938 testing the major version before the FIPS builds
is_vuln_ctx694938_mainline_first(vtuple) ==
    IF vtuple.major = 14 THEN TupleLess(vtuple, VersionTuple(14, 1, 47, 48))
    ELSE IF vtuple.major = 13 THEN TupleLess(vtuple, VersionTuple(13, 1, 59, 22))
    ELSE IF is_fips_13_1(vtuple) THEN TupleLess(vtuple, VersionTuple(13, 1, 37, 241))
    ELSE IF is_fips_12_1(vtuple) THEN TupleLess(vtuple, VersionTuple(12, 1, 55, 330))
    ELSE is_eol(vtuple)

\* is_vuln_ctx694938 comparing only build and patch on the 13.x branch
is_vuln_ctx694938_build_patch_only(vtuple) ==
    IF is_fips_13_1(vtuple) THEN TupleLess(vtuple, VersionTuple(13, 1, 37, 241))
    ELSE IF is_fips_12_1(vtuple) THEN TupleLess(vtuple, VersionTuple(12, 1, 55, 330))
    ELSE IF vtuple.major = 14 THEN TupleLess(vtuple, VersionTuple(14, 1, 47, 48))
    ELSE IF vtuple.major = 13
         THEN SeqLess(<<vtuple.build, vtuple.patch>>, <<59, 22>>)
    ELSE is_eol(vtuple)

\* is_vuln_ctx694938 with the 13.1 threshold of CTX693420
is_vuln_ctx694938_threshold_13_1_58_32(vtuple) ==
    IF is_fips_13_1(vtuple) THEN TupleLess(vtuple, VersionTuple(13, 1, 37, 241))
    ELSE IF is_fips_12_1(vtuple) THEN TupleLess(vtuple, VersionTuple(12, 1, 55, 330))
    ELSE IF vtuple.major = 14 THEN TupleLess(vtuple, VersionTuple(14, 1, 47, 48))
    ELSE IF vtuple.major = 13 THEN TupleLess(vtuple, VersionTuple(13, 1, 58, 32))
    ELSE is_eol(vtuple)

is_vuln_ctx694938(vtuple) ==
    IF is_fips_13_1(vtuple) THEN TupleLess(vtuple, VersionTuple(13, 1, 37, 241))
    ELSE IF is_fips_12_1(vtuple) THEN TupleLess(vtuple, VersionTuple(12, 1, 55, 330))
    ELSE IF vtuple.major = 14 THEN TupleLess(vtuple, VersionTuple(14, 1, 47, 48))
    ELSE IF vtuple.major = 13 THEN TupleLess(vtuple, VersionTuple(13, 1, 59, 22))
    ELSE is_eol(vtuple)

Advisories == {"CTX693420", "CTX694788", "CTX694938"}

\* CVE_CHECKS: CVE identifier -> advisory predicate
CveAdvisory ==
    [cve \in {"CVE-2025-5349", "CVE-2025-5777", "CVE-2025-6543",
              "CVE-2025-7775", "CVE-2025-7776", "CVE-2025-8424"} |->
        CASE cve \in {"CVE-2025-5349", "CVE-2025-5777"} -> "CTX693420"
          [] cve = "CVE-2025-6543" -> "CTX694788"
          [] OTHER -> "CTX694938"]

CVE_CHECKS(cve, vtuple) ==
    CASE CveAdvisory[cve] = "CTX693420" -> is_vuln_ctx693420(vtuple)
      [] CveAdvisory[cve] = "CTX694788" -> is_vuln_ctx694788(vtuple)
      [] CveAdvisory[cve] = "CTX694938" -> is_vuln_ctx694938(vtuple)

\* The "Affected versions" lists of the three docstrings: per advisory and
\* branch, the first version that is no longer affected
DocFixedIn ==
    { [adv |-> "CTX693420", branch |-> "14.x",      fixed |-> VersionTuple(14, 1, 43, 56)],
      [adv |-> "CTX693420", branch |-> "13.x",      fixed |-> VersionTuple(13, 1, 58, 32)],
      [adv |-> "CTX693420", branch |-> "fips-13.1", fixed |-> VersionTuple(13, 1, 37, 235)],
      [adv |-> "CTX693420", branch |-> "fips-12.1", fixed |-> VersionTuple(12, 1, 55, 328)],
      [adv |-> "CTX694788", branch |-> "14.x",      fixed |-> VersionTuple(14, 1, 47, 46)],
      [adv |-> "CTX694788", branch |-> "13.x",      fixed |-> VersionTuple(13, 1, 59, 19)],
      [adv |-> "CTX694788", branch |-> "fips-13.1", fixed |-> VersionTuple(13, 1, 37, 236)],
      [adv |-> "CTX694938", branch |-> "14.x",      fixed |-> VersionTuple(14, 1, 47, 48)],
      [adv |-> "CTX694938", branch |-> "13.x",      fixed |-> VersionTuple(13, 1, 59, 22)],
      [adv |-> "CTX694938", branch |-> "fips-13.1", fixed |-> VersionTuple(13, 1, 37, 241)],
      [adv |-> "CTX694938", branch |-> "fips-12.1", fixed |-> VersionTuple(12, 1, 55, 330)] }

\* Versions the doctests of is_eol and of the predicates are run on, and the
\* end-of-life version 13.0-92.21 of the version table
DocExamples ==
    { VersionTuple(13, 0, 0, 0),   VersionTuple(11, 1, 65, 20),
      VersionTuple(12, 1, 50, 28), VersionTuple(13, 0, 92, 21),
      VersionTuple(12, 1, 55, 132), VersionTuple(12, 1, 55, 320),
      VersionTuple(13, 1, 9, 60),  VersionTuple(12, 1, 62, 27) }

(* ------------------------------------------------------------------ *)
(* Main scanning logic                                                 *)
(* ------------------------------------------------------------------ *)

\* an optional value that is not text: None is <<>>, a value x is <<x>>
NoneValue == <<>>

Some(x) == <<x>>

NetScalerScanResult(target, tls_names, rdx_en_stamp, rdx_en_dt, ver, error) ==
    [target |-> target, tls_names |-> tls_names, rdx_en_stamp |-> rdx_en_stamp,
     rdx_en_dt |-> rdx_en_dt, version |-> ver, error |-> error]

\* b"\x1f\x8b\x08\x08"
GzipSignature == <<31, 139, 8, 8>>

\* b"rdx_en.json"
FilenameMarker == <<114, 100, 120, 95, 101, 110, 46, 106, 115, 111, 110>>

\* bytes.startswith
StartsWith(data, prefix) ==
    Len(data) >= Len(prefix) /\ SubSeq(data, 1, Len(prefix)) = prefix

\* the bytes operator  sub in data
Contains(data, sub) ==
    \E i \in 0..(Len(data) - Len(sub)) : SubSeq(data, i + 1, i + Len(sub)) = sub

\* the slice data[lo+1:hi+1]
Slice_one_later(data, lo, hi) ==
    SubSeq(data, lo + 2, IF hi + 1 < Len(data) THEN hi + 1 ELSE Len(data))

\* data[lo:hi], offsets from zero, cut at the end of data
Slice(data, lo, hi) ==
    SubSeq(data, lo + 1, IF hi < Len(data) THEN hi ELSE Len(data))

\* int.from_bytes(bytes, "little")
RECURSIVE FromBytesLittle(_)
FromBytesLittle(bytes) ==
    IF bytes = <<>> THEN 0 ELSE Head(bytes) + 256 * FromBytesLittle(Tail(bytes))

\* the civil date of the day z days after 1970-01-01
CivilFromDays(z) ==
    LET zz  == z + 719468
        era == zz \div 146097
        doe == zz - era * 146097
        yoe == (doe - doe \div 1460 + doe \div 36524 - doe \div 146096) \div 365
        doy == doe - (365 * yoe + yoe \div 4 - yoe \div 100)
        mp  == (5 * doy + 2) \div 153
        d   == doy - (153 * mp + 2) \div 5 + 1
        m   == IF mp < 10 THEN mp + 3 ELSE mp - 9
        y   == yoe + era * 400 + (IF m <= 2 THEN 1 ELSE 0)
    IN  <<y, m, d>>

\* datetime.fromtimestamp(stamp, timezone.utc)
UtcDateTime(stamp) ==
    LET secs == stamp % 86400
    IN  CivilFromDays(stamp \div 86400)
            \o <<secs \div 3600, (secs % 3600) \div 60, secs % 60>>

NoValidData == "No valid data found, probably not a Citrix NetScaler"

\* what the one GET request of a probe yields when nothing raises: the first
\* chunk of at most 100 bytes, and what the certificate read leaves in
\* subject_alt_names
StreamResponse(subject_alt_names, data) ==
    [subject_alt_names |-> subject_alt_names, data |-> data]

\* the lookup with dict.get's own default, None
resolve_default_none(vstamps, stamp) == DictGet(vstamps, stamp, None)

\* vstamp_to_version.get(stamp, "unknown")
resolve(vstamps, stamp) == DictGet(vstamps, stamp, UNKNOWN)

\* the body with the two tests joined by or
scan_netscaler_target_either_test(target, response, vstamps) ==
    LET data == response.data IN
    IF StartsWith(data, GzipSignature) \/ Contains(data, FilenameMarker)
    THEN LET stamp == FromBytesLittle(Slice(data, 4, 8))
         IN  NetScalerScanResult(target, response.subject_alt_names, Some(stamp),
                                 Some(UtcDateTime(stamp)),
                                 resolve(vstamps, stamp), NoneValue)
    ELSE NetScalerScanResult(target, response.subject_alt_names, NoneValue, NoneValue,
                             None, Some(NoValidData))

\* the body of scan_netscaler_target once the response is open
scan_netscaler_target(target, response, vstamps) ==
    LET data == response.data IN
    IF StartsWith(data, GzipSignature) /\ Contains(data, FilenameMarker)
    THEN LET stamp == FromBytesLittle(Slice(data, 4, 8))
         IN  NetScalerScanResult(target, response.subject_alt_names, Some(stamp),
                                 Some(UtcDateTime(stamp)),
                                 resolve(vstamps, stamp), NoneValue)
    ELSE NetScalerScanResult(target, response.subject_alt_names, NoneValue, NoneValue,
                             None, Some(NoValidData))

DigitChar(d) ==
    CASE d = 0 -> "0" [] d = 1 -> "1" [] d = 2 -> "2" [] d = 3 -> "3" [] d = 4 -> "4"
      [] d = 5 -> "5" [] d = 6 -> "6" [] d = 7 -> "7" [] d = 8 -> "8" [] d = 9 -> "9"

\* str(n) of a non-negative integer
RECURSIVE Decimal(_)
Decimal(n) ==
    IF n < 10 THEN <<DigitChar(n)>> ELSE Decimal(n \div 10) \o <<DigitChar(n % 10)>>

\* the text MAJOR.MINOR-BUILD.PATCH of a tuple, as the version table and the
\* doctests write versions ("12.1-55.328" for (12, 1, 55, 328))
FormatVersion(t) ==
    Decimal(t.major) \o <<".">> \o Decimal(t.minor) \o <<"-">>
        \o Decimal(t.build) \o <<".">> \o Decimal(t.patch)

(* ------------------------------------------------------------------ *)
(* main: the advisory selection                                        *)
(* ------------------------------------------------------------------ *)

\* list(CVE_CHECKS.keys()): the identifiers in the order of the dictionary
available_cves ==
    <<"CVE-2025-5349", "CVE-2025-5777", "CVE-2025-6543",
      "CVE-2025-7775", "CVE-2025-7776", "CVE-2025-8424">>

\* the characters of an identifier of CVE_CHECKS
CveText(cve) ==
    <<"C", "V", "E", "-", "2", "0", "2", "5", "-">> \o
    CASE cve = "CVE-2025-5349" -> <<"5", "3", "4", "9">>
      [] cve = "CVE-2025-5777" -> <<"5", "7", "7", "7">>
      [] cve = "CVE-2025-6543" -> <<"6", "5", "4", "3">>
      [] cve = "CVE-2025-7775" -> <<"7", "7", "7", "5">>
      [] cve = "CVE-2025-7776" -> <<"7", "7", "7", "6">>
      [] cve = "CVE-2025-8424" -> <<"8", "4", "2", "4">>

\* cve in available_cves, for the text cve
IsAvailable(cve) ==
    \E i \in 1..Len(available_cves) : CveText(available_cves[i]) = cve

\* the key of CVE_CHECKS that is the text cve
CveKey(cve) ==
    available_cves[CHOOSE i \in 1..Len(available_cves) :
                       CveText(available_cves[i]) = cve]

\* [cve.strip() for cve in args.cve.split(",")] if args.cve else available_cves
CvesToCheck(args_cve) ==
    IF args_cve # None /\ args_cve # <<>>
    THEN LET parts == StrSplit(args_cve, ",")
         IN  [i \in 1..Len(parts) |-> StrStrip(parts[i])]
    ELSE [i \in 1..Len(available_cves) |-> CveText(available_cves[i])]

\* the loop over cves_to_check that calls parser.error: the first identifier
\* that is no key of CVE_CHECKS, or None
FirstUnknownCve(cves) ==
    IF \A i \in 1..Len(cves) : IsAvailable(cves[i])
    THEN None
    ELSE cves[CHOOSE i \in 1..Len(cves) :
                 ~IsAvailable(cves[i]) /\ \A j \in 1..(i - 1) : IsAvailable(cves[j])]

\* the message without the list of the available identifiers
UnknownCveError_no_list(cve) ==
    [text |-> "Unknown CVE", cve |-> cve, available |-> <<>>]

\* parser.error(message): the message argparse writes to stderr before it
\* exits with status 2
UnknownCveError(cve) ==
    [text |-> "Unknown CVE", cve |-> cve, available |-> available_cves]

NoTargetError ==
    [text |-> "at least one target is required", cve |-> None, available |-> <<>>]

(* ------------------------------------------------------------------ *)
(* main: one target, from the request to the line written              *)
(* ------------------------------------------------------------------ *)

CERT_NONE == "CERT_NONE"

CERT_OPTIONAL == "CERT_OPTIONAL"

\* What the network does to the one request of a probe.  raised names the
\* call that raises, if any: "stream" (client.stream: no connection, no
\* response), "getpeercert" (the certificate read, with an exception that is
\* no AttributeError), "iter_raw" (the read of the first chunk); message is
\* str(exc); response is what the calls that do not raise return.
Exchange(raised, message, response) ==
    [raised |-> raised, message |-> message, response |-> response]

\* ssl_ctx.verify_mode after  with temporary_ssl_verify_mode(ssl_ctx, new_mode)
\* entered with verify_mode: the generator sets new_mode, and restores the old
\* mode after its yield only when the body of the with statement did not raise
temporary_ssl_verify_mode(verify_mode, new_mode, body_raised) ==
    IF body_raised THEN new_mode ELSE verify_mode

\* ssl_ctx.verify_mode after scan_netscaler_target: the with statement is
\* entered once a response is open
VerifyModeAfter(verify_mode, exchange) ==
    IF exchange.raised = "stream" THEN verify_mode
    ELSE temporary_ssl_verify_mode(verify_mode, CERT_OPTIONAL,
                                   exchange.raised = "getpeercert")

\* the try statement around scan_netscaler_target: what main binds to version
TryScan(target, exchange, vstamps) ==
    IF exchange.raised = "no"
    THEN scan_netscaler_target(target, exchange.response, vstamps)
    ELSE NetScalerScanResult(target, NoneValue, NoneValue, NoneValue, None,
                             Some(exchange.message))

\* the loop  for cve in cves_to_check: vulnerable_map[cve] = CVE_CHECKS[cve](vtuple)
RECURSIVE CheckCves(_, _, _)
CheckCves(cves, tuple, map) ==
    IF cves = <<>> THEN map
    ELSE CheckCves(Tail(cves), tuple,
                   DictSet(map, CveKey(Head(cves)),
                           CVE_CHECKS(CveKey(Head(cves)), tuple)))

\* vulnerable_map after the try statement around parse_version
VulnerableMap(outcome, cves) ==
    IF outcome.ok THEN CheckCves(cves, outcome.val, <<>>) ELSE <<>>

\* the aggregate with all() in place of any()
IsVulnerable_all(map) ==
    map # <<>> /\ \A i \in 1..Len(map) : map[i][2]

\* any(vulnerable_map.values()) if vulnerable_map else False
IsVulnerable(map) ==
    map # <<>> /\ \E i \in 1..Len(map) : map[i][2]

(* ------------------------------------------------------------------ *)
(* main: the line written for a target                                 *)
(* ------------------------------------------------------------------ *)

\* the decimal digits of n, zero-filled to width
RECURSIVE ZeroFill(_, _)
ZeroFill(n, width) ==
    IF width = 0 THEN <<>>
    ELSE ZeroFill(n \div 10, width - 1) \o <<DigitChar(n % 10)>>

\* datetime.isoformat() of a datetime of the time zone UTC
IsoFormat(dt) ==
    ZeroFill(dt[1], 4) \o <<"-">> \o ZeroFill(dt[2], 2) \o <<"-">> \o ZeroFill(dt[3], 2)
        \o <<"T">> \o ZeroFill(dt[4], 2) \o <<":">> \o ZeroFill(dt[5], 2)
        \o <<":">> \o ZeroFill(dt[6], 2) \o <<"+", "0", "0", ":", "0", "0">>

\* the keys of jdict: a field name, and f"vuln_{cve}"
Key(name) == <<name>>

VulnKey(cve) == <<"vuln_", cve>>

\* jdict after  jdict.update(version._asdict()), rdx_en_dt replaced by its
\* isoformat; scanned_at is the time of the clock
ResultDict(result) ==
    << <<Key("scanned_at"), "now">>,
       <<Key("target"), result.target>>,
       <<Key("tls_names"), result.tls_names>>,
       <<Key("rdx_en_stamp"), result.rdx_en_stamp>>,
       <<Key("rdx_en_dt"), IF Len(result.rdx_en_dt) > 0
                           THEN Some(IsoFormat(result.rdx_en_dt[1]))
                           ELSE NoneValue>>,
       <<Key("version"), result.version>>,
       <<Key("error"), result.error>> >>

\* jdict as json.dumps gets it
JsonDict(result, map, vulnerable) ==
    ResultDict(result)
        \o << <<Key("vulnerable"), map>>, <<Key("is_vulnerable"), vulnerable>> >>

\* int(value) of a bool
BoolInt(value) == IF value THEN 1 ELSE 0

\* the loop  for cve, value in jdict["vulnerable"].items(): jdict[f"vuln_{cve}"] = int(value)
RECURSIVE VulnColumns(_, _)
VulnColumns(jdict, map) ==
    IF map = <<>> THEN jdict
    ELSE VulnColumns(DictSet(jdict, VulnKey(Head(map)[1]), BoolInt(Head(map)[2])),
                     Tail(map))

\* jdict as csv_writer.writerow gets it: the vulnerable item popped, the
\* is_vulnerable item popped and set again, which puts it last
CsvDict(result, map, vulnerable) ==
    DictSet(VulnColumns(ResultDict(result), map),
            Key("is_vulnerable"), BoolInt(vulnerable))

\* csv.DictWriter._dict_to_list: rowdict.keys() - self.fieldnames
WrongFields(fieldnames, rowdict) ==
    {rowdict[i][1] : i \in 1..Len(rowdict)}
        \ {fieldnames[k] : k \in 1..Len(fieldnames)}

\* the cell of a column: a missing key gives restval, the empty cell, and the
\* writer writes None as the empty cell too
CsvCell(rowdict, key) ==
    LET value == DictGet(rowdict, key, <<>>)
    IN  IF key = Key("version") /\ value = None THEN <<>> ELSE value

CsvHeaderLine(fieldnames) ==
    [form |-> "csv header", cells |-> fieldnames]

CsvRowLine(fieldnames, rowdict) ==
    [form |-> "csv row", target |-> DictGet(rowdict, Key("target"), 0),
     cells |-> [k \in 1..Len(fieldnames) |-> CsvCell(rowdict, fieldnames[k])]]

JsonLine(jdict) ==
    [form |-> "json", target |-> DictGet(jdict, Key("target"), 0), jdict |-> jdict]

\* the plain text output without its branch for the unknown version
TextLine_no_unknown(result, vulnerable) ==
    IF Len(result.error) > 0 /\ result.error[1] # ""
    THEN [form |-> "ERROR", target |-> result.target,
          tls_names |-> result.tls_names, error |-> result.error]
    ELSE [form |-> "is running Citrix NetScaler version", target |-> result.target,
          tls_names |-> result.tls_names, version |-> result.version,
          vulnerable_str |-> IF vulnerable THEN "VULNERABLE" ELSE "NOT VULNERABLE"]

\* the three print calls of the plain text output
TextLine(result, vulnerable) ==
    IF Len(result.error) > 0 /\ result.error[1] # ""
    THEN [form |-> "ERROR", target |-> result.target,
          tls_names |-> result.tls_names, error |-> result.error]
    ELSE IF result.version = UNKNOWN
    THEN [form |-> "is running an unknown version", target |-> result.target,
          tls_names |-> result.tls_names, stamp |-> result.rdx_en_stamp,
          dt |-> result.rdx_en_dt]
    ELSE [form |-> "is running Citrix NetScaler version", target |-> result.target,
          tls_names |-> result.tls_names, version |-> result.version,
          vulnerable_str |-> IF vulnerable THEN "VULNERABLE" ELSE "NOT VULNERABLE"]

\* The output part of the loop body: the lines written to stdout, csv_writer
\* afterwards, and the exception that leaves main, if any.  The DictWriter
\* is made for the first row, with that row's keys as its fieldnames.
Emit(args, csv_writer, result, map, vulnerable) ==
    IF args.csv
    THEN LET rowdict    == CsvDict(result, map, vulnerable)
             first      == Len(csv_writer) = 0
             fieldnames == IF first THEN DictKeys(rowdict) ELSE csv_writer[1]
             header     == IF first THEN <<CsvHeaderLine(fieldnames)>> ELSE <<>>
         IN  IF WrongFields(fieldnames, rowdict) # {}
             THEN [csv_writer |-> Some(fieldnames), lines |-> header,
                   raised |-> "ValueError"]
             ELSE [csv_writer |-> Some(fieldnames),
                   lines |-> Append(header, CsvRowLine(fieldnames, rowdict)),
                   raised |-> ""]
    ELSE IF args.json
    THEN [csv_writer |-> csv_writer,
          lines |-> <<JsonLine(JsonDict(result, map, vulnerable))>>, raised |-> ""]
    ELSE [csv_writer |-> csv_writer, lines |-> <<TextLine(result, vulnerable)>>,
          raised |-> ""]

(* ------------------------------------------------------------------ *)
(* version_check_based_on_csv_lists.py: one row of input.csv            *)
(* ------------------------------------------------------------------ *)

\* the list of patched versions
patched_versionen ==
    << <<"1", "4", ".", "1", "-", "4", "7", ".", "4", "8">>,
       <<"1", "3", ".", "1", "-", "3", "7", ".", "2", "4", "1">>,
       <<"1", "3", ".", "1", "-", "5", "9", ".", "2", "2">>,
       <<"1", "2", ".", "1", "-", "5", "5", ".", "3", "3", "0">> >>

\* x in list
InList(x, list) == \E i \in 1..Len(list) : list[i] = x

\* the columns of output.csv: those of input.csv, then the three columns to
\* be filled that input.csv does not have
OutputFieldnames(fieldnames) ==
    LET add(names, col) == IF InList(col, names) THEN names ELSE Append(names, col)
    IN  add(add(add(fieldnames, "version"), "error"), "vulnerable")

\* What the scanner process did for a row: its exit status and the lines it
\* wrote to stdout.
Finding(returncode, lines) == [returncode |-> returncode, stdout |-> lines]

\* stdout of  scan-citrix-netscaler-version.py <target> --json  for a target
\* with the given version and error: one line, json.dumps(jdict)
ScannerOutput(target, ver, error) ==
    LET result == NetScalerScanResult(target, NoneValue, NoneValue, NoneValue,
                                      ver, error)
        map    == VulnerableMap(parse_version(ver), CvesToCheck(None))
    IN  <<JsonLine(JsonDict(result, map, IsVulnerable(map)))>>

\* json.loads(finding_raw): the object of the one line, or JSONDecodeError
\* for an output that is empty or no JSON text
json_loads(lines) ==
    IF Len(lines) = 1 /\ lines[1].form = "json"
    THEN [ok |-> TRUE, data |-> lines[1].jdict]
    ELSE [ok |-> FALSE, data |-> <<>>]

\* the if statement that sets vulnerable from version; None and "" are false
VulnerableOf(ver) ==
    IF ver # None /\ ver # <<>> /\ ~InList(ver, patched_versionen) THEN "true"
    ELSE IF InList(ver, patched_versionen) THEN "false"
    ELSE "unclear"

\* the text of f"Error: {e}" for a CalledProcessError
ErrorText == "Error: Command returned non-zero exit status"

\* The two try statements of the loop body, entered with the global
\* vulnerable as bound: version and error as lines 78 and 79 find them, and
\* vulnerable afterwards.  Only the branch of a decoded output assigns
\* vulnerable.
TryFinding(bound, finding) ==
    IF finding.returncode # 0
    THEN [version |-> <<>>, error |-> Some(ErrorText), vulnerable |-> bound]
    ELSE LET loaded == json_loads(finding.stdout)
         IN  IF loaded.ok
             THEN LET ver == DictGet(loaded.data, Key("version"), <<>>)
                  IN  [version |-> ver,
                       error |-> DictGet(loaded.data, Key("error"), <<>>),
                       vulnerable |-> Some(VulnerableOf(ver))]
             ELSE [version |-> <<>>, error |-> <<>>, vulnerable |-> bound]

\* One pass of the loop  for line in reader: the row written, the global
\* vulnerable afterwards, and the exception that leaves the script, if any:
\* line 80 reads vulnerable, which raises NameError while it is unbound.
CheckRow(bound, target, finding) ==
    LET tried == TryFinding(bound, finding)
    IN  IF Len(tried.vulnerable) = 0
        THEN [raised |-> "NameError", vulnerable |-> tried.vulnerable, rows |-> <<>>]
        ELSE [raised |-> "", vulnerable |-> tried.vulnerable,
              rows |-> <<[form |-> "csv row", target |-> target,
                          version |-> tried.version, error |-> tried.error,
                          vulnerable |-> tried.vulnerable[1]]>>]

(* ------------------------------------------------------------------ *)
(* State                                                               *)
(* ------------------------------------------------------------------ *)

VARIABLES
    pc,         \* position of the run
    vtuple,     \* argument of the advisory predicates
    verdict,    \* what is_eol and the three predicates returned for vtuple
    version,    \* argument of parse_version
    parsed,     \* what parse_version returned or raised for version
    csv,                \* the rows of CITRIX_NETSCALER_VERSION_CSV
    vhash_to_version,   \* module global, set at import
    vstamp_to_version,  \* module global, set at import
    args,               \* main: what parser.parse_args() returned
    cves_to_check,      \* main: the identifiers to evaluate
    scanned,            \* main: targets the loop has taken
    exchanges,          \* what the network did to the probes so far
    requests,           \* targets of the calls of client.stream so far
    verify_mode,        \* ssl_ctx.verify_mode
    csv_writer,         \* main: None, or the fieldnames of the DictWriter
    stdout,             \* lines written to sys.stdout
    stderr,             \* messages of parser.error
    scan_result,        \* main: version, the NetScalerScanResult of the target
    vulnerable_map,     \* main: the advisory map of the target
    is_vulnerable,      \* main: the aggregate of the target
    probes,             \* calls of scan_netscaler_target that run at the same time
    input_rows,         \* version_check_based_on_csv_lists.py: the number of rows of input.csv
    findings,           \* what the scanner gave for the rows taken so far
    vulnerable,         \* the module global vulnerable: unbound, or its value
    output_file         \* the lines written to output.csv

vulnVars == <<vtuple, verdict>>

parseVars == <<version, parsed>>

tableVars == <<csv, vhash_to_version, vstamp_to_version>>

mainVars ==
    <<args, cves_to_check, scanned, exchanges, requests, verify_mode, csv_writer,
      stdout, stderr, scan_result, vulnerable_map, is_vulnerable, probes>>

listVars == <<input_rows, findings, vulnerable, output_file>>

vars == <<pc, vulnVars, parseVars, tableVars, mainVars, listVars>>

NoVerdict ==
    [eol |-> FALSE, CTX693420 |-> FALSE, CTX694788 |-> FALSE, CTX694938 |-> FALSE]

NoResult == NetScalerScanResult(0, NoneValue, NoneValue, NoneValue, None, NoneValue)

\* the values of the variables a run does not use
VulnUnused == vtuple = VersionTuple(0, 0, 0, 0) /\ verdict = NoVerdict

ParseUnused == version = None /\ parsed = Raised("")

TablesUnset == vhash_to_version = <<>> /\ vstamp_to_version = <<>>

ScanUnused == scan_result = NoResult

\* args before parse_args
NoArgs == [targets |-> 0, input |-> NoneValue, json |-> FALSE, csv |-> FALSE, cve |-> None]

\* the module globals and the locals of main before main runs
MainUnused ==
    /\ args = NoArgs
    /\ cves_to_check = <<>>
    /\ scanned = 0
    /\ exchanges = <<>>
    /\ requests = <<>>
    /\ verify_mode = CERT_NONE
    /\ csv_writer = NoneValue
    /\ stdout = <<>>
    /\ stderr = <<>>
    /\ ScanUnused
    /\ vulnerable_map = <<>>
    /\ is_vulnerable = FALSE
    /\ probes = <<>>

\* the globals of version_check_based_on_csv_lists.py before it runs
ListUnused ==
    /\ input_rows = 0
    /\ findings = <<>>
    /\ vulnerable = NoneValue
    /\ output_file = <<>>

(* ------------------------------------------------------------------ *)
(* The predicates applied to version tuples                            *)
(* ------------------------------------------------------------------ *)

MinMajor == 11
MaxMajor == 15
MaxMinor == 2
Window == 1

\* builds and patches within Window of a documented threshold or example
NearBuilds ==
    {c \in 0..100 : \E t \in {e.fixed : e \in DocFixedIn} \cup DocExamples :
                       c \in (t.build - Window)..(t.build + Window)}

NearPatches ==
    {d \in 0..400 : \E t \in {e.fixed : e \in DocFixedIn} \cup DocExamples :
                       d \in (t.patch - Window)..(t.patch + Window)}

InitVuln ==
    /\ pc = "classify"
    /\ VulnUnused
    /\ ParseUnused
    /\ csv = <<>> /\ TablesUnset
    /\ MainUnused
    /\ ListUnused

\* one call of is_eol and of each advisory predicate on the same tuple
Classify ==
    /\ pc = "classify"
    /\ \E a \in MinMajor..MaxMajor, b \in 0..MaxMinor, c \in NearBuilds, d \in NearPatches :
         LET t == VersionTuple(a, b, c, d) IN
         /\ vtuple' = t
         /\ verdict' = [eol |-> is_eol(t),
                        CTX693420 |-> is_vuln_ctx693420(t),
                        CTX694788 |-> is_vuln_ctx694788(t),
                        CTX694938 |-> is_vuln_ctx694938(t)]
    /\ pc' = "classified"
    /\ UNCHANGED <<parseVars, tableVars, mainVars>>
    /\ UNCHANGED listVars

NextVuln == Classify

SpecVuln == InitVuln /\ [][NextVuln]_vars

(* ------------------------------------------------------------------ *)
(* parse_version applied to version texts                              *)
(* ------------------------------------------------------------------ *)

MaxField == 12
MaxParts == 5

\* the parts a text is joined from: empty, one and two digits, a letter, and
\* the signed, underscore-grouped and blank-padded forms int() accepts
Parts ==
    { <<>>, <<"7">>, <<"1", "2">>, <<"u">>, <<"+", "3">>, <<"1", "_", "0">>, <<" ", "5">> }

\* how the separators between the parts are chosen: position i -> separator
SepPatterns ==
    { [i \in 1..MaxParts |-> "."], [i \in 1..MaxParts |-> "-"],
      [i \in 1..MaxParts |-> IF i % 2 = 1 THEN "." ELSE "-"],
      [i \in 1..MaxParts |-> IF i % 2 = 1 THEN "-" ELSE "."] }

RECURSIVE Join(_, _)
Join(ps, seps) ==
    IF Len(ps) = 1 THEN ps[1]
    ELSE Join(SubSeq(ps, 1, Len(ps) - 1), seps)
            \o <<seps[Len(ps) - 1]>> \o ps[Len(ps)]

Txt_1_2_3 == <<"1", ".", "2", "-", "3">>

\* texts that are not a join of Parts: None, the sentinel, ill-placed
\* underscores and signs, a blank part
OtherTexts ==
    { None, UNKNOWN, Txt_1_2_3,
      <<"1", ".", "2", "-", "3", ".", "_", "4">>,
      <<"1", ".", "2", "-", "3", ".", "4", "_">>,
      <<"1", ".", "2", "-", "3", ".", "1", "_", "_", "0">>,
      <<"1", ".", "2", "-", "3", ".", "+">>,
      <<"1", ".", "2", "-", "3", ".", "4", "+">>,
      <<"1", ".", "2", "-", "3", ".", " ">>,
      <<"1", ".", "2", "-", "3", ".", "4", " ">>,
      <<"1", ".", "2", "-", "3", ".", "4", " ", "5">> }

InitParse ==
    /\ pc = "parse"
    /\ VulnUnused
    /\ ParseUnused
    /\ csv = <<>> /\ TablesUnset
    /\ MainUnused
    /\ ListUnused

\* parse_version on the text of a tuple
ParseFormatted ==
    /\ pc = "parse"
    /\ \/ \E a \in 0..MaxField, b \in 0..MaxField, c \in 0..MaxField, d \in 0..MaxField :
            vtuple' = VersionTuple(a, b, c, d)
       \/ \E t \in {e.fixed : e \in DocFixedIn} \cup DocExamples : vtuple' = t
    /\ version' = FormatVersion(vtuple')
    /\ parsed' = parse_version(version')
    /\ pc' = "parsed_formatted"
    /\ UNCHANGED <<verdict, tableVars, mainVars>>
    /\ UNCHANGED listVars

\* parse_version on an arbitrary text
ParseText ==
    /\ pc = "parse"
    /\ \/ \E n \in 1..MaxParts : \E ps \in [1..n -> Parts], seps \in SepPatterns :
            version' = Join(ps, seps)
       \/ \E t \in OtherTexts : version' = t
    /\ parsed' = parse_version(version')
    /\ pc' = "parsed_text"
    /\ UNCHANGED <<vulnVars, tableVars, mainVars>>
    /\ UNCHANGED listVars

NextParse == ParseFormatted \/ ParseText

SpecParse == InitParse /\ [][NextParse]_vars

(* ------------------------------------------------------------------ *)
(* The import of the module, and the responses of a device             *)
(* ------------------------------------------------------------------ *)

\* vhash_to_version, vstamp_to_version = load_version_hashes(), run at import;
\* a failed assertion ends the process before main
Import ==
    /\ pc = "import"
    /\ LET loaded == load_version_hashes(csv) IN
         IF loaded.ok
         THEN /\ vhash_to_version' = loaded.vhash_to_version
              /\ vstamp_to_version' = loaded.vstamp_to_version
              /\ pc' = "main"
         ELSE /\ UNCHANGED <<vhash_to_version, vstamp_to_version>>
              /\ pc' = "import_failed"
    /\ UNCHANGED <<csv, vulnVars, parseVars, mainVars>>
    /\ UNCHANGED listVars

\* int.to_bytes(4, "little"): the MTIME field of a gzip member
ToBytesLittle(stamp) ==
    <<stamp % 256, (stamp \div 256) % 256, (stamp \div 65536) % 256,
      (stamp \div 16777216) % 256>>

\* the first bytes of a gzip member with FLG.FNAME set: signature, MTIME,
\* XFL, OS, the zero-terminated file name, the start of the deflate data
GzipChunk(stamp, name) ==
    GzipSignature \o ToBytesLittle(stamp) \o <<0, 3>> \o name \o <<0, 237, 189>>

\* stamps a device may serve: every stamp of the shipped table, and stamps
\* that are in no table, among them the stamps with one byte set and the
\* largest stamp with the top bit clear
ProbeStamps ==
    {CITRIX_NETSCALER_VERSION_CSV[i].rdx_en_stamp :
        i \in 1..Len(CITRIX_NETSCALER_VERSION_CSV)}
        \cup {0, 1750134084, 255, 256, 65536, 16777216, 2147483647}

\* b"index.html"
OtherFilename == <<105, 110, 100, 101, 120, 46, 104, 116, 109, 108>>

\* chunks that are no gzip member of rdx_en.json: no body, another file
\* name, FLG.FNAME not set, a page, the signature alone, a member cut after
\* six bytes, the file name alone
MalformedChunks ==
    { <<>>,
      GzipSignature,
      GzipSignature \o <<3, 93>>,
      FilenameMarker,
      GzipChunk(1750134083, OtherFilename),
      <<31, 139, 8, 0>> \o Tail(Tail(Tail(Tail(GzipChunk(1750134083, FilenameMarker))))),
      <<60, 104, 116, 109, 108, 62>> }

\* every response of the probe harness: a well-formed chunk for each stamp
Responses ==
    {StreamResponse(Some("vpn.example.org"), GzipChunk(stamp, FilenameMarker)) :
        stamp \in ProbeStamps}
    \cup {StreamResponse(NoneValue, data) :
            data \in MalformedChunks \cup {GzipSignature \o FilenameMarker}}

Init ==
    /\ pc = "import"
    /\ VulnUnused
    /\ ParseUnused
    /\ csv = CITRIX_NETSCALER_VERSION_CSV /\ TablesUnset
    /\ MainUnused
    /\ ListUnused

(* ------------------------------------------------------------------ *)
(* The program: import, main's argument checks, the loop over targets  *)
(* ------------------------------------------------------------------ *)

MaxTargets == 2

\* the text of a --cve option
Cve_6543 == CveText("CVE-2025-6543")

Cve_7775 == CveText("CVE-2025-7775")

Cve_5349 == CveText("CVE-2025-5349")

Cve_9999 == <<"C", "V", "E", "-", "2", "0", "2", "5", "-", "9", "9", "9", "9">>

\* values of args.cve: the option not given, given empty, one identifier, the
\* example of the help text, a list with a blank and a repeated identifier,
\* an identifier CVE_CHECKS does not have, a list with one, a trailing comma
CveOptions ==
    { None, <<>>, Cve_6543,
      Cve_6543 \o <<",">> \o Cve_7775,
      Cve_5349 \o <<",", " ">> \o Cve_6543 \o <<",">> \o Cve_5349,
      Cve_9999,
      Cve_7775 \o <<",">> \o Cve_9999,
      Cve_6543 \o <<",">> }

\* what the network does to a target of a batch: devices of three versions
\* of the table (12.1-49.23, 12.1-55.328, 13.1-59.22), a device of a build
\* the table lists as unknown, a device of a build the table does not have,
\* a web server that is no NetScaler, and the three calls that can raise
TargetExchanges ==
    { Exchange("no", "", StreamResponse(Some("vpn.example.org"),
                                        GzipChunk(1535167752, FilenameMarker))),
      Exchange("no", "", StreamResponse(Some("vpn.example.org"),
                                        GzipChunk(1750134083, FilenameMarker))),
      Exchange("no", "", StreamResponse(NoneValue,
                                        GzipChunk(1755693886, FilenameMarker))),
      Exchange("no", "", StreamResponse(Some("vpn.example.org"),
                                        GzipChunk(1550038312, FilenameMarker))),
      Exchange("no", "", StreamResponse(NoneValue, GzipChunk(0, FilenameMarker))),
      Exchange("no", "", StreamResponse(Some("www.example.org"),
                                        <<60, 104, 116, 109, 108, 62>>)),
      Exchange("stream", "timed out", StreamResponse(NoneValue, <<>>)),
      Exchange("getpeercert", "Underlying socket connection gone",
               StreamResponse(NoneValue, <<>>)),
      Exchange("iter_raw", "The read operation timed out",
               StreamResponse(Some("vpn.example.org"), <<>>)) }

\* the calls of client.stream one call of scan_netscaler_target makes, and a
\* second call after an exception
ProbeRequests_retry(target, exchange) ==
    IF exchange.raised = "no" THEN <<target>> ELSE <<target, target>>

\* the calls of client.stream one call of scan_netscaler_target makes
ProbeRequests(target, exchange) == <<target>>

\* len(targets): the lines of the input file, or the positional targets
NumTargets(a) == IF Len(a.input) > 0 THEN a.input[1] ELSE a.targets

\* main up to the loop: parse_args, the check that there is a target, the
\* check of the advisory selection
ParseArgs ==
    /\ pc = "main"
    /\ \E json \in BOOLEAN, csvmode \in BOOLEAN, cve \in CveOptions,
          list \in {<<n, NoneValue>> : n \in 0..MaxTargets}
                      \cup {<<0, Some(n)>> : n \in 0..MaxTargets} :
          LET a    == [targets |-> list[1], input |-> list[2], json |-> json,
                       csv |-> csvmode, cve |-> cve]
              cves == CvesToCheck(cve)
          IN  /\ args' = a
              /\ IF a.targets = 0 /\ Len(a.input) = 0
                 THEN /\ stderr' = Append(stderr, NoTargetError)
                      /\ cves_to_check' = cves_to_check
                      /\ pc' = "usage_error"
                 ELSE /\ cves_to_check' = cves
                      /\ IF FirstUnknownCve(cves) # None
                         THEN /\ stderr' = Append(stderr,
                                              UnknownCveError(FirstUnknownCve(cves)))
                              /\ pc' = "usage_error"
                         ELSE /\ stderr' = stderr
                              /\ pc' = IF NumTargets(a) = 0 THEN "done" ELSE "scan"
    /\ UNCHANGED <<scanned, exchanges, requests, verify_mode, csv_writer, stdout,
                   scan_result, vulnerable_map, is_vulnerable, probes>>
    /\ UNCHANGED <<vulnVars, parseVars, tableVars, listVars>>

\* one pass of the loop  for target in targets: the probe, the evaluation of
\* the advisories, the line written; the targets are numbered in input order
ScanTarget ==
    /\ pc = "scan"
    /\ \E exchange \in TargetExchanges :
          LET target  == scanned + 1
              result  == TryScan(target, exchange, vstamp_to_version)
              outcome == parse_version(result.version)
              map     == VulnerableMap(outcome, cves_to_check)
              out     == Emit(args, csv_writer, result, map, IsVulnerable(map))
          IN  /\ exchanges' = Append(exchanges, exchange)
              /\ requests' = requests \o ProbeRequests(target, exchange)
              /\ verify_mode' = VerifyModeAfter(verify_mode, exchange)
              /\ scan_result' = result
              /\ version' = result.version
              /\ parsed' = outcome
              /\ vtuple' = IF outcome.ok THEN outcome.val ELSE vtuple
              /\ vulnerable_map' = map
              /\ is_vulnerable' = IsVulnerable(map)
              /\ csv_writer' = out.csv_writer
              /\ stdout' = stdout \o out.lines
              /\ scanned' = target
              /\ pc' = IF out.raised # "" THEN "crashed"
                       ELSE IF target = NumTargets(args) THEN "done" ELSE "scan"
    /\ UNCHANGED <<args, cves_to_check, stderr, probes, verdict, tableVars>>
    /\ UNCHANGED listVars

Next == Import \/ ParseArgs \/ ScanTarget

Spec == Init /\ [][Next]_vars

(* ------------------------------------------------------------------ *)
(* The program with a version table that has a malformed version       *)
(* ------------------------------------------------------------------ *)

Text_13_1_59 == <<"1", "3", ".", "1", "-", "5", "9">>

\* the shipped table with the version of the row of stamp 1755693886 written
\* without its patch number: "13.1-59" for "13.1-59.22"
CorruptTable ==
    [i \in 1..Len(CITRIX_NETSCALER_VERSION_CSV) |->
        IF CITRIX_NETSCALER_VERSION_CSV[i].rdx_en_stamp = 1755693886
        THEN [CITRIX_NETSCALER_VERSION_CSV[i] EXCEPT !.version = Text_13_1_59]
        ELSE CITRIX_NETSCALER_VERSION_CSV[i]]

InitCorrupt ==
    /\ pc = "import"
    /\ VulnUnused
    /\ ParseUnused
    /\ csv = CorruptTable /\ TablesUnset
    /\ MainUnused
    /\ ListUnused

SpecCorrupt == InitCorrupt /\ [][Next]_vars

(* ------------------------------------------------------------------ *)
(* scan_netscaler_target applied to responses, the shipped table loaded *)
(* ------------------------------------------------------------------ *)

\* one call of scan_netscaler_target that does not raise
Probe ==
    /\ pc = "main"
    /\ \E response \in Responses :
          /\ scan_result' = scan_netscaler_target(1, response, vstamp_to_version)
          /\ exchanges' = Append(exchanges, Exchange("no", "", response))
          /\ requests' = requests \o ProbeRequests(1, Exchange("no", "", response))
          /\ verify_mode' = VerifyModeAfter(verify_mode, Exchange("no", "", response))
    /\ pc' = "probed"
    /\ UNCHANGED <<args, cves_to_check, scanned, csv_writer, stdout, stderr,
                   vulnerable_map, is_vulnerable, probes>>
    /\ UNCHANGED <<vulnVars, parseVars, tableVars, listVars>>

NextProbe == Import \/ Probe

SpecProbe == Init /\ [][NextProbe]_vars

(* ------------------------------------------------------------------ *)
(* scan_netscaler_target called by threads that share ssl_ctx          *)
(* ------------------------------------------------------------------ *)

MaxProbes == 2

\* the devices the concurrent probes talk to: a NetScaler and a web server,
\* both with a certificate that has subject alternative names
ConcurrentResponses ==
    { StreamResponse(Some("vpn.example.org"), GzipChunk(1750134083, FilenameMarker)),
      StreamResponse(Some("www.example.org"), <<60, 104, 116, 109, 108, 62>>) }

\* a call of scan_netscaler_target: the statement it is at, the response of
\* its device, old_mode of its temporary_ssl_verify_mode, ssl_ctx.verify_mode
\* as its TLS handshake and its getpeercert call found it, its
\* subject_alt_names, and what the call returned or raised
NewProbe ==
    [at |-> "stream", response |-> StreamResponse(NoneValue, <<>>),
     old_mode |-> CERT_NONE, handshake_mode |-> CERT_NONE, cert_mode |-> CERT_NONE,
     subject_alt_names |-> NoneValue, result |-> NoResult]

\* the calls start, each in a thread of its own
StartProbes ==
    /\ pc = "main"
    /\ pc' = "concurrent"
    /\ probes' = [p \in 1..MaxProbes |-> NewProbe]
    /\ UNCHANGED <<args, cves_to_check, scanned, exchanges, requests, verify_mode,
                   csv_writer, stdout, stderr, scan_result, vulnerable_map,
                   is_vulnerable>>
    /\ UNCHANGED <<vulnVars, parseVars, tableVars, listVars>>

\* the frame of a step of probe p
ProbeStep(p, at) ==
    /\ pc = "concurrent"
    /\ probes[p].at = at
    /\ UNCHANGED <<pc, args, cves_to_check, scanned, exchanges, csv_writer, stdout,
                   stderr, scan_result, vulnerable_map, is_vulnerable>>
    /\ UNCHANGED <<vulnVars, parseVars, tableVars, listVars>>

\* client.stream("GET", url): the TLS handshake is made with the verify_mode
\* ssl_ctx has at that moment; with a mode other than CERT_NONE the
\* certificate is verified, which fails as ssl_ctx has no CA certificates, and
\* client.stream raises
Connect(p) ==
    /\ ProbeStep(p, "stream")
    /\ requests' = requests \o ProbeRequests(p, Exchange("no", "", NewProbe.response))
    /\ verify_mode' = verify_mode
    /\ \E response \in ConcurrentResponses :
          IF verify_mode = CERT_NONE
          THEN probes' = [probes EXCEPT ![p].at = "old_mode",
                                        ![p].response = response,
                                        ![p].handshake_mode = verify_mode]
          ELSE probes' = [probes EXCEPT
                    ![p].at = "raised",
                    ![p].response = response,
                    ![p].handshake_mode = verify_mode,
                    ![p].result = TryScan(p, Exchange("stream",
                                             "CERTIFICATE_VERIFY_FAILED", response),
                                          vstamp_to_version)]

\* temporary_ssl_verify_mode: old_mode = ssl_ctx.verify_mode
SaveMode(p) ==
    /\ ProbeStep(p, "old_mode")
    /\ probes' = [probes EXCEPT ![p].at = "new_mode", ![p].old_mode = verify_mode]
    /\ UNCHANGED <<requests, verify_mode>>

\* temporary_ssl_verify_mode: ssl_ctx.verify_mode = new_mode
SetMode(p) ==
    /\ ProbeStep(p, "new_mode")
    /\ verify_mode' = CERT_OPTIONAL
    /\ probes' = [probes EXCEPT ![p].at = "getpeercert"]
    /\ UNCHANGED requests

\* ssl_object.getpeercert(): the dictionary of the certificate when the mode
\* of ssl_ctx is not CERT_NONE at that moment, an empty dictionary when it is
ReadCert(p) ==
    /\ ProbeStep(p, "getpeercert")
    /\ probes' = [probes EXCEPT
            ![p].at = "restore",
            ![p].cert_mode = verify_mode,
            ![p].subject_alt_names =
                IF verify_mode = CERT_NONE THEN NoneValue
                ELSE probes[p].response.subject_alt_names]
    /\ UNCHANGED <<requests, verify_mode>>

\* temporary_ssl_verify_mode: ssl_ctx.verify_mode = old_mode
RestoreMode(p) ==
    /\ ProbeStep(p, "restore")
    /\ verify_mode' = probes[p].old_mode
    /\ probes' = [probes EXCEPT ![p].at = "iter_raw"]
    /\ UNCHANGED requests

\* the first chunk, its validation, the result
ReadChunk(p) ==
    /\ ProbeStep(p, "iter_raw")
    /\ probes' = [probes EXCEPT
            ![p].at = "returned",
            ![p].result = scan_netscaler_target(
                              p, StreamResponse(probes[p].subject_alt_names,
                                                probes[p].response.data),
                              vstamp_to_version)]
    /\ UNCHANGED <<requests, verify_mode>>

NextConcurrent ==
    \/ Import
    \/ StartProbes
    \/ \E p \in 1..MaxProbes :
          \/ Connect(p)
          \/ SaveMode(p)
          \/ SetMode(p)
          \/ ReadCert(p)
          \/ RestoreMode(p)
          \/ ReadChunk(p)

SpecConcurrent == Init /\ [][NextConcurrent]_vars

(* ------------------------------------------------------------------ *)
(* load_version_hashes applied to small datasets                       *)
(* ------------------------------------------------------------------ *)

MaxRows == 3
MaxStamp == 3

Text_12_1_55_328 == <<"1", "2", ".", "1", "-", "5", "5", ".", "3", "2", "8">>

\* rows of the first seconds of 1970; the date of a row agrees with its stamp
SmallRows ==
    {Row(<<1970, 1, 1, 0, 0, stamp>>, stamp, vhash, ver) :
        stamp \in 1..MaxStamp, vhash \in {"", "26df0e65"},
        ver \in {<<>>, UNKNOWN, Text_12_1_55_328}}

\* the dataset with the date of row k, if there is one, a minute off
WithDateOff(rows, k) ==
    [i \in 1..Len(rows) |->
        IF i = k THEN [rows[i] EXCEPT !.rdx_en_date[5] = 1] ELSE rows[i]]

InitLoad ==
    /\ pc = "import"
    /\ VulnUnused
    /\ ParseUnused
    /\ \E len \in 0..MaxRows : \E rows \in [1..len -> SmallRows] : \E k \in 0..len :
          csv = WithDateOff(rows, k)
    /\ TablesUnset
    /\ MainUnused
    /\ ListUnused

NextLoad == Import

SpecLoad == InitLoad /\ [][NextLoad]_vars

(* ------------------------------------------------------------------ *)
(* version_check_based_on_csv_lists.py: the loop over the rows          *)
(* ------------------------------------------------------------------ *)

MaxLines == 3

\* what the scanner can give for the row of a target: a JSON line for a
\* patched version, for two versions that are not in the list, for the
\* unknown version and for a probe that failed; no output; a line that is no
\* JSON; and the exit statuses of a traceback and of a usage error
ListFindings(target) ==
    { Finding(0, ScannerOutput(target, FormatVersion(VersionTuple(14, 1, 47, 48)),
                               NoneValue)),
      Finding(0, ScannerOutput(target, FormatVersion(VersionTuple(13, 1, 59, 22)),
                               NoneValue)),
      Finding(0, ScannerOutput(target, FormatVersion(VersionTuple(12, 1, 49, 23)),
                               NoneValue)),
      Finding(0, ScannerOutput(target, UNKNOWN, NoneValue)),
      Finding(0, ScannerOutput(target, None, Some("timed out"))),
      Finding(0, <<>>),
      Finding(0, <<[form |-> "ERROR", target |-> target, tls_names |-> NoneValue,
                    error |-> Some("timed out")]>>),
      Finding(1, <<>>),
      Finding(2, <<>>) }

InitList ==
    /\ pc = "list_main"
    /\ VulnUnused
    /\ ParseUnused
    /\ csv = <<>> /\ TablesUnset
    /\ MainUnused
    /\ input_rows \in 0..MaxLines
    /\ findings = <<>>
    /\ vulnerable = NoneValue
    /\ output_file = <<>>

\* the with statement up to the loop: input.csv has the column target; the
\* header of output.csv is written
OpenFiles ==
    /\ pc = "list_main"
    /\ output_file' = <<CsvHeaderLine(OutputFieldnames(<<"target">>))>>
    /\ pc' = IF input_rows = 0 THEN "list_done" ELSE "for_line"
    /\ UNCHANGED <<input_rows, findings, vulnerable>>
    /\ UNCHANGED <<vulnVars, parseVars, tableVars, mainVars>>

\* one pass of the loop  for line in reader; the rows are numbered in input
\* order and the target of a row is its number
CheckLine ==
    /\ pc = "for_line"
    /\ \E finding \in ListFindings(Len(findings) + 1) :
          LET target == Len(findings) + 1
              pass   == CheckRow(vulnerable, target, finding)
          IN  /\ findings' = Append(findings, finding)
              /\ vulnerable' = pass.vulnerable
              /\ output_file' = output_file \o pass.rows
              /\ pc' = IF pass.raised # "" THEN "name_error"
                       ELSE IF target = input_rows THEN "list_done" ELSE "for_line"
    /\ UNCHANGED input_rows
    /\ UNCHANGED <<vulnVars, parseVars, tableVars, mainVars>>

NextList == OpenFiles \/ CheckLine

SpecList == InitList /\ [][NextList]_vars

(* ------------------------------------------------------------------ *)
(* Properties of the advisory predicates (under SpecVuln)              *)
(* ------------------------------------------------------------------ *)

Classified == pc = "classified"

PatchBefore(t) == [t EXCEPT !.patch = @ - 1]

\* the order of the data model, written out field by field
LexBefore(t, u) ==
    \/ t.major < u.major
    \/ t.major = u.major /\ t.minor < u.minor
    \/ t.major = u.major /\ t.minor = u.minor /\ t.build < u.build
    \/ t.major = u.major /\ t.minor = u.minor /\ t.build = u.build /\ t.patch < u.patch

\* FirmwareBranch of the data model: the compliance triples first
BranchOf(t) ==
    IF t.major = 13 /\ t.minor = 1 /\ t.build = 37 THEN "fips-13.1"
    ELSE IF t.major = 12 /\ t.minor = 1 /\ t.build = 55 THEN "fips-12.1"
    ELSE IF t.major = 14 THEN "14.x"
    ELSE IF t.major = 13 THEN "13.x"
    ELSE "legacy"

\* C1: for every advisory and every branch with a documented fixed-in version
\* T, the predicate is false on T and true on T with its patch lowered by one.
C1_ThresholdBoundary ==
    Classified =>
        \A e \in DocFixedIn :
            /\ vtuple = e.fixed => ~verdict[e.adv]
            /\ vtuple = PatchBefore(e.fixed) => verdict[e.adv]

C1_Witness ==
    /\ Classified
    /\ vtuple = VersionTuple(14, 1, 47, 45)
    /\ verdict["CTX694788"]

\* C2: a (13,1,37,p) tuple is decided by the advisory's FIPS-13.1 threshold
\* alone and a (12,1,55,p) tuple by its FIPS-12.1 rule alone (unaffected when
\* the advisory documents none), never by the 13.x threshold or the EOL rule;
\* so (13,1,37,240) is vulnerable to CTX694938 and (13,1,37,241) is not.
C2_BranchPrecedence ==
    Classified =>
        /\ \A a \in Advisories :
              /\ BranchOf(vtuple) = "fips-13.1" =>
                    \E e \in DocFixedIn :
                        /\ e.adv = a /\ e.branch = "fips-13.1"
                        /\ verdict[a] = (vtuple.patch < e.fixed.patch)
              /\ BranchOf(vtuple) = "fips-12.1" =>
                    verdict[a] = (\E e \in DocFixedIn :
                                     /\ e.adv = a /\ e.branch = "fips-12.1"
                                     /\ vtuple.patch < e.fixed.patch)
        /\ vtuple = VersionTuple(13, 1, 37, 240) => verdict["CTX694938"]
        /\ vtuple = VersionTuple(13, 1, 37, 241) => ~verdict["CTX694938"]

C2_Witness ==
    /\ Classified
    /\ vtuple = VersionTuple(13, 1, 37, 241)
    /\ ~verdict["CTX694938"]
    /\ TupleLess(vtuple, VersionTuple(13, 1, 59, 22))

\* C3: on a branch for which the advisory documents a fixed-in version, a
\* tuple is vulnerable exactly when it is lexicographically before it.
C3_StrictlyBelowThreshold ==
    Classified =>
        \A e \in DocFixedIn :
            BranchOf(vtuple) = e.branch =>
                (verdict[e.adv] <=> LexBefore(vtuple, e.fixed))

C3_Witness ==
    /\ Classified
    /\ vtuple = VersionTuple(14, 2, 0, 0)
    /\ \A a \in Advisories : ~verdict[a]

\* C4: is_eol holds exactly for the tuples that are no FIPS build and are
\* either 13.0 or of major version 12 or lower.
C4_EolRule ==
    Classified =>
        /\ verdict.eol <=>
              /\ BranchOf(vtuple) \notin {"fips-13.1", "fips-12.1"}
              /\ (vtuple.major = 13 /\ vtuple.minor = 0) \/ vtuple.major <= 12
        /\ vtuple \in {VersionTuple(13, 1, 37, 241), VersionTuple(12, 1, 55, 328)}
              => ~verdict.eol
        /\ vtuple \in {VersionTuple(11, 1, 65, 20), VersionTuple(12, 1, 50, 28),
                       VersionTuple(13, 0, 92, 21)} => verdict.eol

C4_Witness ==
    /\ Classified
    /\ vtuple = VersionTuple(12, 1, 55, 328)
    /\ ~verdict.eol

\* C5: an end-of-life tuple is vulnerable to all three advisories.
C5_EolIsVulnerable ==
    Classified /\ verdict.eol => \A a \in Advisories : verdict[a]

C5_Witness ==
    /\ Classified
    /\ vtuple = VersionTuple(13, 0, 92, 21)
    /\ verdict.eol
    /\ \A a \in Advisories : verdict[a]

\* C6: CTX694788 never reports a 12.1-FIPS build (12,1,55,p) vulnerable.
C6_Fips12Unaffected ==
    Classified /\ vtuple.major = 12 /\ vtuple.minor = 1 /\ vtuple.build = 55
        => ~verdict["CTX694788"]

C6_Witness ==
    /\ Classified
    /\ vtuple = VersionTuple(12, 1, 55, 327)
    /\ ~verdict["CTX694788"]
    /\ verdict["CTX693420"]

(* ------------------------------------------------------------------ *)
(* Properties of parse_version (under SpecParse)                       *)
(* ------------------------------------------------------------------ *)


\* C7: parse_version returns t for the text MAJOR.MINOR-BUILD.PATCH of every
\* tuple t of non-negative integers, and fails on "unknown", "" and "1.2-3".
C7_RoundTrip ==
    /\ pc = "parsed_formatted" => parsed.ok /\ parsed.val = vtuple
    /\ pc = "parsed_text" /\ version \in {UNKNOWN, <<>>, Txt_1_2_3} => ~parsed.ok

C7_Witness ==
    /\ pc = "parsed_formatted"
    /\ vtuple = VersionTuple(12, 1, 55, 328)
    /\ version = <<"1", "2", ".", "1", "-", "5", "5", ".", "3", "2", "8">>
    /\ parsed.val = vtuple

IsSeparator(c) == c \in {".", "-"}

\* text that denotes an integer for int(): decimal digits, single underscores
\* allowed between two digits, an optional sign in front, blanks around
IsIntegerText(s) ==
    \E i \in 1..Len(s) : \E j \in i..Len(s) :
        /\ \A k \in 1..Len(s) : (k < i \/ k > j) => s[k] = " "
        /\ \E f \in {i, i + 1} :
              /\ f <= j
              /\ f = i + 1 => s[i] \in {"+", "-"}
              /\ s[f] \in DigitChars /\ s[j] \in DigitChars
              /\ \A k \in f..j : s[k] \in DigitChars \/ (s[k] = "_" /\ s[k + 1] # "_")

\* the text has three separators and each of the four stretches they
\* delimit is integer text
FourIntegerComponents(s) ==
    LET at == {i \in 1..Len(s) : IsSeparator(s[i])}
        cut == at \cup {0, Len(s) + 1}
    IN  /\ Cardinality(at) = 3
        /\ \A i \in cut : \A j \in cut :
              (i < j /\ \A k \in cut : ~(i < k /\ k < j))
                  => IsIntegerText(SubSeq(s, i + 1, j - 1))

\* C8: parse_version returns a tuple exactly for the texts that split, with
\* "." and "-" as one separator, into four integer components (integer text
\* as int() reads it); on every other text, and on None, it raises ValueError.
C8_FailsUnlessFourIntegers ==
    pc \in {"parsed_formatted", "parsed_text"} =>
        /\ parsed.ok <=> (version # None /\ FourIntegerComponents(version))
        /\ ~parsed.ok => parsed.exc = "ValueError"

C8_Witness ==
    /\ pc = "parsed_text"
    /\ version = <<"7", ".", "1", "2", "-", "7", ".", "1", "2", "-", "7">>
    /\ ~parsed.ok
    /\ parsed.exc = "ValueError"

(* ------------------------------------------------------------------ *)
(* Property of load_version_hashes (under SpecLoad)                    *)
(* ------------------------------------------------------------------ *)

StrictlyIncreasing(rows) ==
    \A i \in 1..Len(rows) : \A j \in 1..Len(rows) :
        i < j => rows[i].rdx_en_stamp < rows[j].rdx_en_stamp

\* C9: the import fails for every dataset in which some row's stamp is not
\* above the stamp of every earlier row; main is reached only with a
\* dataset whose stamps strictly increase in row order.
C9_LoadFailsUnlessStrictlyIncreasing ==
    pc = "main" => StrictlyIncreasing(csv)

(* ------------------------------------------------------------------ *)
(* Property of the resolution of a stamp (under SpecProbe)             *)
(* ------------------------------------------------------------------ *)

\* C10: a probe that extracted a stamp reports the version the timestamp
\* index holds for it, and "unknown" when the stamp is no key of the index;
\* with the shipped table every row's stamp resolves to that row's version,
\* 1750134083 to "12.1-55.328" and 0 to "unknown".
C10_Resolution ==
    pc = "probed" /\ scan_result.rdx_en_stamp # NoneValue =>
        LET stamp == scan_result.rdx_en_stamp[1]
            keyed == \E i \in 1..Len(vstamp_to_version) : vstamp_to_version[i][1] = stamp
        IN  /\ keyed => \E i \in 1..Len(vstamp_to_version) :
                            vstamp_to_version[i] = <<stamp, scan_result.version>>
            /\ ~keyed => scan_result.version = UNKNOWN
            /\ \A i \in 1..Len(csv) :
                  csv[i].rdx_en_stamp = stamp => scan_result.version = csv[i].version
            /\ stamp = 1750134083 => scan_result.version = Text_12_1_55_328
            /\ stamp = 0 => scan_result.version = UNKNOWN

C10_Witness ==
    /\ pc = "probed"
    /\ scan_result.rdx_en_stamp = Some(1750134083)
    /\ scan_result.version = Text_12_1_55_328
    /\ scan_result.error = NoneValue

(* ------------------------------------------------------------------ *)
(* Properties of the loop of main (under Spec)                         *)
(* ------------------------------------------------------------------ *)

IsResultLine(line) == line.form # "csv header"

\* the lines of stdout that report a target
ResultLines == SelectSeq(stdout, IsResultLine)

\* C11: in every output mode every target of the list is processed and gets
\* exactly one result line, in input order, whatever the outcomes of the
\* targets are; no outcome ends the loop early.
C11_OneRecordPerTarget ==
    /\ pc # "crashed"
    /\ pc \in {"scan", "done"} =>
          /\ Len(ResultLines) = scanned
          /\ \A i \in 1..scanned : ResultLines[i].target = i
    /\ pc = "done" => scanned = NumTargets(args)

\* what stdout gets from the loop run on items, a list of <<target, exchange>>,
\* with the arguments and tables of the state, from the DictWriter writer on
RECURSIVE BatchLines(_, _)
BatchLines(items, writer) ==
    IF items = <<>> THEN <<>>
    ELSE LET result == TryScan(Head(items)[1], Head(items)[2], vstamp_to_version)
             map    == VulnerableMap(parse_version(result.version), cves_to_check)
             out    == Emit(args, writer, result, map, IsVulnerable(map))
         IN  IF out.raised # "" THEN out.lines
             ELSE out.lines \o BatchLines(Tail(items), out.csv_writer)

\* the result lines among lines that are not about target k
RECURSIVE LinesNotOf(_, _)
LinesNotOf(lines, k) ==
    IF lines = <<>> THEN <<>>
    ELSE IF Head(lines).form = "csv header" THEN LinesNotOf(Tail(lines), k)
    ELSE IF Head(lines).target = k THEN LinesNotOf(Tail(lines), k)
    ELSE <<Head(lines)>> \o LinesNotOf(Tail(lines), k)

\* the probed targets with what the network did to them, target k left out
ItemsWithout(k) ==
    LET others == SelectSeq([i \in 1..scanned |-> i], LAMBDA i : i # k)
    IN  [j \in 1..Len(others) |-> <<others[j], exchanges[others[j]]>>]

\* C12: a target whose probe raised has a non-empty error text, no version and
\* an empty advisory map, and the lines written for the other targets are the
\* lines the batch without that target writes for them.
C12_FailureIsolated ==
    scanned > 0 =>
        /\ exchanges[scanned].raised # "no" =>
              /\ Len(scan_result.error) > 0 /\ scan_result.error[1] # ""
              /\ scan_result.version = None
              /\ vulnerable_map = <<>>
        /\ \A k \in 1..scanned :
              exchanges[k].raised # "no" =>
                  LinesNotOf(stdout, k) = LinesNotOf(BatchLines(ItemsWithout(k), NoneValue), k)

\* the cell of a CSV row in the column name of the header
CellOf(line, name) ==
    line.cells[CHOOSE k \in 1..Len(csv_writer[1]) : csv_writer[1][k] = Key(name)]

\* What a reader of a result line takes the target to be, from the line
\* alone: "error", "unknown" (version not determined), "assessed" (a version
\* with a verdict).
LineClass(line) ==
    CASE line.form = "ERROR" -> "error"
      [] line.form = "is running an unknown version" -> "unknown"
      [] line.form = "is running Citrix NetScaler version" -> "assessed"
      [] line.form = "json" ->
            IF Len(DictGet(line.jdict, Key("error"), NoneValue)) > 0 THEN "error"
            ELSE IF DictGet(line.jdict, Key("version"), None) = UNKNOWN THEN "unknown"
            ELSE "assessed"
      [] line.form = "csv row" ->
            IF Len(CellOf(line, "error")) > 0 THEN "error"
            ELSE IF CellOf(line, "version") = UNKNOWN THEN "unknown"
            ELSE "assessed"

\* the last pass of the loop wrote a line for its target
LineWritten ==
    /\ scanned > 0
    /\ stdout # <<>>
    /\ stdout[Len(stdout)].form # "csv header"
    /\ stdout[Len(stdout)].target = scanned

\* C13: a target whose probe succeeded with the version "unknown" has an empty
\* advisory map (no predicate evaluated) and no error, and the line written for
\* it reads as an unknown version, which the line of no other target does.
C13_UnknownVersionReported ==
    scanned > 0 =>
        /\ (exchanges[scanned].raised = "no" /\ scan_result.version = UNKNOWN) =>
              /\ ~parsed.ok
              /\ vulnerable_map = <<>>
              /\ ~is_vulnerable
              /\ scan_result.error = NoneValue
              /\ LineWritten
              /\ LineClass(stdout[Len(stdout)]) = "unknown"
        /\ (LineWritten /\ LineClass(stdout[Len(stdout)]) = "unknown") =>
              /\ scan_result.version = UNKNOWN
              /\ scan_result.error = NoneValue
              /\ vulnerable_map = <<>>

\* the text mode has reported a known version and then a build the table
\* lists as unknown
C13_Witness ==
    /\ LineWritten
    /\ scan_result.rdx_en_stamp = Some(1550038312)
    /\ scan_result.version = UNKNOWN
    /\ stdout[Len(stdout)].form = "is running an unknown version"
    /\ scanned = 2
    /\ stdout[1].form = "is running Citrix NetScaler version"

(* ------------------------------------------------------------------ *)
(* Property of the loop of main with a malformed version in the table  *)
(* (under SpecCorrupt)                                                 *)
(* ------------------------------------------------------------------ *)

\* C14: a target whose probe succeeded with a version that is not "unknown"
\* and does not parse is reported with an error, not as a version that was
\* assessed.
C14_CorruptEntrySurfaced ==
    (/\ scanned > 0
     /\ exchanges[scanned].raised = "no"
     /\ Len(scan_result.rdx_en_stamp) > 0
     /\ scan_result.version # UNKNOWN
     /\ ~parsed.ok) =>
        /\ LineWritten
        /\ LineClass(stdout[Len(stdout)]) = "error"

\* C15: for a target whose version parses, the keys of the advisory map are
\* exactly the selected identifiers, each key has the value of its predicate
\* on the parsed tuple, and is_vulnerable is the OR of the values; with an
\* empty map is_vulnerable is false.
C15_AdvisoryMap ==
    scanned > 0 =>
        /\ parsed.ok =>
              /\ vtuple = parsed.val
              /\ {CveText(vulnerable_map[i][1]) : i \in 1..Len(vulnerable_map)}
                    = {cves_to_check[j] : j \in 1..Len(cves_to_check)}
              /\ \A i, j \in 1..Len(vulnerable_map) :
                    vulnerable_map[i][1] = vulnerable_map[j][1] => i = j
              /\ \A i \in 1..Len(vulnerable_map) :
                    vulnerable_map[i][2] =
                        CASE vulnerable_map[i][1] \in {"CVE-2025-5349", "CVE-2025-5777"} ->
                                is_vuln_ctx693420(vtuple)
                          [] vulnerable_map[i][1] = "CVE-2025-6543" ->
                                is_vuln_ctx694788(vtuple)
                          [] vulnerable_map[i][1] \in {"CVE-2025-7775", "CVE-2025-7776",
                                                       "CVE-2025-8424"} ->
                                is_vuln_ctx694938(vtuple)
        /\ is_vulnerable = (\E i \in 1..Len(vulnerable_map) : vulnerable_map[i][2])
        /\ vulnerable_map = <<>> => ~is_vulnerable

\* 12.1-55.328 checked for CVE-2025-6543 and CVE-2025-7775: not affected by
\* the first, affected by the second
C15_Witness ==
    /\ scanned > 0
    /\ parsed.ok
    /\ vtuple = VersionTuple(12, 1, 55, 328)
    /\ vulnerable_map = << <<"CVE-2025-6543", FALSE>>, <<"CVE-2025-7775", TRUE>> >>
    /\ is_vulnerable

(* ------------------------------------------------------------------ *)
(* Properties of the argument checks of main (under Spec)              *)
(* ------------------------------------------------------------------ *)

ArgsParsed == pc \notin {"import", "import_failed", "main"}

\* the --cve option names an identifier that is no key of CVE_CHECKS
SelectsUnknownCve ==
    /\ args.cve # None /\ args.cve # <<>>
    /\ \E i \in 1..Len(StrSplit(args.cve, ",")) :
          StrStrip(StrSplit(args.cve, ",")[i])
              \notin {CveText(cve) : cve \in DOMAIN CveAdvisory}

\* the run ended with the usage error that names an unknown identifier and
\* lists the keys of CVE_CHECKS, with no request made and no line written
EndedWithUnknownCve ==
    /\ pc = "usage_error"
    /\ Len(stderr) = 1
    /\ stderr[1].text = "Unknown CVE"
    /\ \E i \in 1..Len(StrSplit(args.cve, ",")) :
          stderr[1].cve = StrStrip(StrSplit(args.cve, ",")[i])
    /\ stderr[1].cve \notin {CveText(cve) : cve \in DOMAIN CveAdvisory}
    /\ {stderr[1].available[i] : i \in 1..Len(stderr[1].available)} = DOMAIN CveAdvisory
    /\ requests = <<>> /\ exchanges = <<>> /\ scanned = 0
    /\ stdout = <<>>

\* C16 as stated: whenever the selection has an identifier that is no key of
\* CVE_CHECKS, the run ends with the usage error that lists the valid
\* identifiers, before any target is probed.
C16_UnknownCveListsValid ==
    (ArgsParsed /\ SelectsUnknownCve) => EndedWithUnknownCve

\* C16 amended: when a target or an input file is given and the selection has
\* an identifier that is no key of CVE_CHECKS, the run ends with the usage
\* error that lists the valid identifiers, before any target is probed; with
\* no target and no input file the run ends with the usage error "at least one
\* target is required", before any probe as well.
C16_UnknownCveListsValidGivenTargets ==
    /\ (ArgsParsed /\ SelectsUnknownCve /\ (args.targets > 0 \/ Len(args.input) > 0))
          => EndedWithUnknownCve
    /\ (ArgsParsed /\ args.targets = 0 /\ Len(args.input) = 0) =>
          /\ pc = "usage_error"
          /\ stderr = <<NoTargetError>>
          /\ requests = <<>> /\ stdout = <<>>
    /\ pc = "usage_error" => (requests = <<>> /\ stdout = <<>>)

\* two targets and --cve CVE-2025-7775,CVE-2025-9999
C16_Witness ==
    /\ pc = "usage_error"
    /\ args.targets = 2
    /\ args.cve = Cve_7775 \o <<",">> \o Cve_9999
    /\ stderr[1].cve = Cve_9999

(* ------------------------------------------------------------------ *)
(* Properties of the validation of the first chunk (under SpecProbe)   *)
(* ------------------------------------------------------------------ *)

\* the first chunk the probed device served
ProbedData == exchanges[1].response.data

\* the chunk begins with the bytes 1F 8B 08 08
BeginsWithSignature ==
    /\ Len(ProbedData) >= 4
    /\ ProbedData[1] = 31 /\ ProbedData[2] = 139
    /\ ProbedData[3] = 8 /\ ProbedData[4] = 8

\* the bytes of "rdx_en.json" are in the chunk, one after the other
HasFilenameMarker ==
    \E at \in 1..Len(ProbedData) :
        /\ at + 10 <= Len(ProbedData)
        /\ \A j \in 0..10 : ProbedData[at + j] = FilenameMarker[j + 1]

\* C17: the probe has a timestamp, a calendar time and a version exactly when
\* the first chunk begins with 1F 8B 08 08 and contains "rdx_en.json";
\* otherwise the result has the error "No valid data ..." and none of the three.
C17_SignatureAndMarker ==
    pc = "probed" =>
        IF BeginsWithSignature /\ HasFilenameMarker
        THEN /\ Len(scan_result.rdx_en_stamp) = 1
             /\ Len(scan_result.rdx_en_dt) = 1
             /\ scan_result.version # None
             /\ scan_result.error = NoneValue
        ELSE /\ scan_result.error = Some(NoValidData)
             /\ scan_result.rdx_en_stamp = NoneValue
             /\ scan_result.rdx_en_dt = NoneValue
             /\ scan_result.version = None

\* a gzip member of a file of another name: signature without the marker
C17_Witness ==
    /\ pc = "probed"
    /\ ProbedData = GzipChunk(1750134083, OtherFilename)
    /\ scan_result.error = Some(NoValidData)

\* C18: the timestamp of a valid chunk is b4 + 256*b5 + 65536*b6 + 16777216*b7
\* for the bytes at offsets 4..7, lies in 0 .. 2^32-1, and the chunk has at
\* least 8 bytes.
C18_LittleEndianStamp ==
    (pc = "probed" /\ Len(scan_result.rdx_en_stamp) = 1) =>
        /\ Len(ProbedData) >= 8
        /\ scan_result.rdx_en_stamp[1]
              = ProbedData[5] + 256 * ProbedData[6] + 65536 * ProbedData[7]
                  + 16777216 * ProbedData[8]
        /\ scan_result.rdx_en_stamp[1] >= 0
        /\ scan_result.rdx_en_stamp[1] \div 65536 < 65536

\* the shortest valid chunk, the marker right after the signature: the
\* timestamp is made of the bytes of "rdx_"
C18_Witness ==
    /\ pc = "probed"
    /\ ProbedData = GzipSignature \o FilenameMarker
    /\ scan_result.rdx_en_stamp = Some(114 + 256 * 100 + 65536 * 120 + 16777216 * 95)

(* ------------------------------------------------------------------ *)
(* Property of the verification-mode toggle (under SpecConcurrent)     *)
(* ------------------------------------------------------------------ *)

ProbeEnded(p) == probes[p].at \in {"returned", "raised"}

\* C19: with two probes running at the same time, the handshake of each
\* connection finds the configured mode CERT_NONE, the certificate read of
\* each probe finds the mode its own toggle set, and when both probes have
\* ended ssl_ctx.verify_mode is CERT_NONE again.
C19_ToggleScopedToConnection ==
    pc = "concurrent" =>
        /\ \A p \in 1..MaxProbes :
              /\ probes[p].at # "stream" => probes[p].handshake_mode = CERT_NONE
              /\ probes[p].at \in {"restore", "iter_raw", "returned"} =>
                    probes[p].cert_mode = CERT_OPTIONAL
        /\ (\A p \in 1..MaxProbes : ProbeEnded(p)) => verify_mode = CERT_NONE

(* ------------------------------------------------------------------ *)
(* Property of the requests of a batch (under Spec)                    *)
(* ------------------------------------------------------------------ *)

\* C20: no target is requested more than once, the requests are made in input
\* order, and when the request of a target is made the result or the error of
\* every earlier target is there: after each pass of the loop the requests so
\* far are one per target taken, and the last one has its result.
C20_OneRequestPerTarget ==
    pc \in {"scan", "done", "crashed"} =>
        /\ \A i, j \in 1..Len(requests) : requests[i] = requests[j] => i = j
        /\ requests = [i \in 1..scanned |-> i]
        /\ Len(exchanges) = scanned
        /\ scanned > 0 =>
              /\ scan_result.target = scanned
              /\ Len(scan_result.error) > 0 \/ Len(scan_result.rdx_en_stamp) > 0

\* two targets, the first timed out and was not requested again
C20_Witness ==
    /\ pc = "done"
    /\ scanned = 2
    /\ exchanges[1].raised = "stream"
    /\ exchanges[2].raised = "no"
    /\ requests = <<1, 2>>

(* ------------------------------------------------------------------ *)
(* Properties of the shared SSL context and of the CSV output          *)
(* (under Spec)                                                        *)
(* ------------------------------------------------------------------ *)

\* C21: after any probe of the loop has ended, by a return or by an exception,
\* the certificate read included, ssl_ctx.verify_mode is CERT_NONE again, so
\* the next target is probed under the mode the first one was.
C21_VerifyModeRestored ==
    scanned > 0 => verify_mode = CERT_NONE

\* the header line of the CSV output
CsvHeader == stdout[1]

\* C22: in CSV mode no pass of the loop raises, the output is the header and
\* one row per target taken, and every row has a cell for each column of the
\* header fixed by the first target's row.
C22_RowsHaveHeaderColumns ==
    args.csv /\ scanned > 0 =>
        /\ pc # "crashed"
        /\ CsvHeader.form = "csv header"
        /\ Len(stdout) = scanned + 1
        /\ \A i \in 2..Len(stdout) :
              /\ stdout[i].form = "csv row"
              /\ Len(stdout[i].cells) = Len(CsvHeader.cells)

(* ------------------------------------------------------------------ *)
(* Relation between the three advisories (under SpecVuln)              *)
(* ------------------------------------------------------------------ *)

\* is_vulnerable of main for the tuple t when --cve is not given
AggregateOfAll(t) ==
    IsVulnerable(VulnerableMap(Returned(t), CvesToCheck(None)))

\* C23: the advisories are nested: a tuple CTX693420 reports vulnerable, and
\* a tuple CTX694788 reports vulnerable, is reported vulnerable by CTX694938;
\* so the aggregate over all six identifiers is the verdict of CTX694938.
C23_AdvisoriesNested ==
    Classified =>
        /\ verdict["CTX693420"] => verdict["CTX694938"]
        /\ verdict["CTX694788"] => verdict["CTX694938"]
        /\ AggregateOfAll(vtuple) = verdict["CTX694938"]

\* a 13.1 build between the thresholds: fixed for CTX693420, not for the others
C23_Witness ==
    /\ Classified
    /\ vtuple = VersionTuple(13, 1, 59, 18)
    /\ ~verdict["CTX693420"]
    /\ verdict["CTX694788"]
    /\ verdict["CTX694938"]
    /\ AggregateOfAll(vtuple)

(* ------------------------------------------------------------------ *)
(* Property of the rows of output.csv (under SpecList)                 *)
(* ------------------------------------------------------------------ *)

\* the rows written to output.csv after its header
OutputRows == Tail(output_file)

\* the row the loop body writes for a finding when no earlier row has been
\* taken, if it writes one
RowOfItsOwn(target, finding) == CheckRow(NoneValue, target, finding).rows

\* C24: every row of input.csv taken so far has exactly one row in
\* output.csv, no pass of the loop ends with vulnerable undefined, and the
\* row written for a finding is the row that finding gets by itself, whatever
\* the earlier rows were; when the loop has ended there is a row per input row.
C24_RowFromOwnFinding ==
    pc \in {"for_line", "list_done", "name_error"} =>
        /\ pc # "name_error"
        /\ Len(OutputRows) = Len(findings)
        /\ pc = "list_done" => Len(OutputRows) = input_rows
        /\ \A i \in 1..Len(OutputRows) :
              <<OutputRows[i]>> = RowOfItsOwn(i, findings[i])

====
